---- MODULE Spec2Model ----
(***************************************************************************)
(* A model of syncdirs: the per-replica watch loops of                     *)
(* DirectorySynchronizer (main.py), the snapshot scan of Watcher           *)
(* (Watcher.py), the propagation session of SyncManager (SyncManager.py),  *)
(* conflict resolution (ConflictResolver.py) and the copy / delete         *)
(* primitives of FileOperations (FileOperations.py).                       *)
(*                                                                         *)
(* A replica is a flat directory of at most NFiles files; a file is its    *)
(* content and its modification time.  Content 0 is the empty file.        *)
(***************************************************************************)
EXTENDS Integers, Sequences, FiniteSets, TLC

\* ------------------------------------------------------------------ bounds
NDirs == 3
NWatched == 2
NFiles == 2
NContents == 1
MaxTime == 2
MaxExternal == 1
MaxRemoved == 1
MaxStamp == 3
MaxPrompts == 2

AllDirs == 1..NDirs
Files == 1..NFiles
Contents == 0..NContents
Times == 1..MaxTime
Main == 0
ThreadIds == {Main} \cup AllDirs

VARIABLES
  directories,   \* DirectorySynchronizer.directories (sequence of replicas)
  policy,        \* resolution_policy
  ioFaults,      \* whether the environment injects transient I/O errors
  disk,          \* the file trees: disk[d][f] = [ex, c, t]
  rootExists,    \* rootExists[d]: the replica's root directory exists
  meta,          \* Watcher.file_metadata of each replica's watcher
  running,       \* DirectorySynchronizer.running
  is_syncing,    \* DirectorySynchronizer.is_syncing
  waiting,       \* threads parked in sync_condition.wait()
  pc,            \* position of each thread
  sc,            \* the scan_directories activation of each thread
  changes,       \* the local variable `changes` of each watch loop
  sess,          \* the SyncManager / sync_files activation of each thread
  extCount,      \* number of external modifications so far
  quiet,         \* a session of a watch loop has run to its end
  extPending,    \* <<d, f>>: modified externally, not yet read by a scan of d
  disk0,         \* the file trees when the observed sync_files call began
  snap0          \* the snapshot when the observed scan_directories call began

vars == <<directories, policy, ioFaults, disk, rootExists, meta, running,
          is_syncing, waiting, pc, sc, changes, sess, extCount, quiet,
          extPending, disk0, snap0>>

\* ------------------------------------------------------------------ values
NoFile == [ex |-> FALSE, c |-> 0, t |-> 0]
File(c, t) == [ex |-> TRUE, c |-> c, t |-> t]
FileStates == {NoFile} \cup {File(c, t) : c \in Contents, t \in Times}

\* hashlib.md5 over the content: equal digests are taken as equal content.
get_file_hash(c) == <<"md5", c>>

NoMeta == [ex |-> FALSE, hash |-> <<>>, last_modified |-> 0]
Meta(h, t) == [ex |-> TRUE, hash |-> h, last_modified |-> t]
MetaStates == {NoMeta} \cup {Meta(get_file_hash(c), t) : c \in Contents, t \in Times}

NoChanges == [f \in Files |-> "none"]
ChangedFiles(ch) == {f \in Files : ch[f] # "none"}

Range(s) == {s[i] : i \in 1..Len(s)}

\* os.path.exists(path) for the file f of replica d
Exists(d, f) == rootExists[d] /\ disk[d][f].ex

\* ------------------------------------------------------------------ scan
NoScan == [phase |-> "idle", dir |-> 0, todo |-> {}, existing |-> {},
           changes |-> NoChanges, deleted |-> {}, errs |-> {}, quiet0 |-> FALSE]

\* os.walk(directory): the files listed now (nothing when the root is gone)
Walk(r) == IF rootExists[r] THEN {f \in Files : disk[r][f].ex} ELSE {}

\* Watcher.scan_directories, lines 60-70: the scan starts and lists the tree
ScanStart(t, r) ==
  LET listing == Walk(r) IN
  sc' = [sc EXCEPT ![t] = [phase |-> IF listing = {} THEN "tracked" ELSE "files",
                           dir |-> r, todo |-> listing, existing |-> {},
                           changes |-> NoChanges, deleted |-> {},
                           errs |-> {},
                           quiet0 |-> quiet /\ extPending = {}]]

\* lines 83-100: classification of one readable file against the snapshot
ClassifyHashOrMtime(old, h, ts) ==
  IF ~old.ex THEN "created"
  ELSE IF h # old.hash \/ ts # old.last_modified THEN "modified"
  ELSE "none"

Classify(old, h, ts) ==
  IF ~old.ex THEN "created"
  ELSE IF h # old.hash THEN "modified"
  ELSE "none"

\* a file that cannot be read is not remembered as seen by the walk
ScanFileForgetsFailed(t) ==
  /\ sc[t].phase = "files"
  /\ \E f \in sc[t].todo, fault \in {FALSE, ioFaults} :
       LET r == sc[t].dir
           left == sc[t].todo \ {f}
           next == IF left = {} THEN "tracked" ELSE "files"
           base == [sc[t] EXCEPT !.todo = left, !.phase = next]
       IN
       IF fault \/ ~Exists(r, f)
       THEN /\ sc' = [sc EXCEPT ![t] = [base EXCEPT !.errs = @ \cup {f}]]
            /\ UNCHANGED <<meta, extPending>>
       ELSE LET kind == Classify(meta[r][f], get_file_hash(disk[r][f].c), disk[r][f].t) IN
            /\ sc' = [sc EXCEPT ![t] = [base EXCEPT !.changes[f] = kind,
                                                    !.existing = @ \cup {f}]]
            /\ meta' = IF kind = "none" THEN meta
                       ELSE [meta EXCEPT ![r][f] =
                               Meta(get_file_hash(disk[r][f].c), disk[r][f].t)]
            /\ extPending' = extPending \ {<<r, f>>}
  /\ UNCHANGED <<directories, policy, ioFaults, disk, rootExists, running,
                 is_syncing, waiting, pc, changes, sess, extCount, quiet,
                 disk0, snap0>>

\* lines 72-104: one file of the walk is processed
ScanFile(t) ==
  /\ sc[t].phase = "files"
  /\ \E f \in sc[t].todo, fault \in {FALSE, ioFaults} :
       LET r == sc[t].dir
           left == sc[t].todo \ {f}
           next == IF left = {} THEN "tracked" ELSE "files"
           base == [sc[t] EXCEPT !.todo = left, !.phase = next,
                                 !.existing = @ \cup {f}]
       IN
       IF fault \/ ~Exists(r, f)
       THEN \* getmtime / open raised OSError: logged, `continue`
            /\ sc' = [sc EXCEPT ![t] = [base EXCEPT !.errs = @ \cup {f}]]
            /\ UNCHANGED <<meta, extPending>>
       ELSE LET kind == Classify(meta[r][f], get_file_hash(disk[r][f].c), disk[r][f].t) IN
            /\ sc' = [sc EXCEPT ![t] = [base EXCEPT !.changes[f] = kind]]
            /\ meta' = IF kind = "none" THEN meta
                       ELSE [meta EXCEPT ![r][f] =
                               Meta(get_file_hash(disk[r][f].c), disk[r][f].t)]
            /\ extPending' = extPending \ {<<r, f>>}
  /\ UNCHANGED <<directories, policy, ioFaults, disk, rootExists, running,
                 is_syncing, waiting, pc, changes, sess, extCount, quiet,
                 disk0, snap0>>

\* lines 108-109: tracked_files - existing_files
ScanTracked(t) ==
  /\ sc[t].phase = "tracked"
  /\ sc' = [sc EXCEPT ![t].phase = "delete",
                      ![t].deleted = {f \in Files : meta[sc[t].dir][f].ex}
                                       \ sc[t].existing]
  /\ UNCHANGED <<directories, policy, ioFaults, disk, rootExists, meta, running,
                 is_syncing, waiting, pc, changes, sess, extCount,
                 quiet, extPending, disk0, snap0>>

\* vanished files are reported and their snapshot entries kept
ScanDeleteKeepsEntries(t) ==
  /\ sc[t].phase = "delete"
  /\ sc' = [sc EXCEPT ![t].phase = "ret",
                      ![t].changes = [f \in Files |->
                         IF f \in sc[t].deleted THEN "deleted" ELSE sc[t].changes[f]]]
  /\ extPending' = extPending \ {<<sc[t].dir, f>> : f \in sc[t].deleted}
  /\ UNCHANGED <<directories, policy, ioFaults, disk, rootExists, meta, running,
                 is_syncing, waiting, pc, changes, sess, extCount, quiet,
                 disk0, snap0>>

\* lines 111-113: every vanished file is reported and dropped from the
\* snapshot; `del` raises KeyError when another thread scanning the same
\* watcher has dropped the entry meanwhile (some entries are dropped before).
ScanDelete(t) ==
  /\ sc[t].phase = "delete"
  /\ LET r == sc[t].dir
         del == sc[t].deleted
         present == {f \in del : meta[r][f].ex}
     IN
     IF present = del
     THEN /\ sc' = [sc EXCEPT ![t].phase = "ret",
                              ![t].changes = [f \in Files |->
                                 IF f \in del THEN "deleted" ELSE sc[t].changes[f]]]
          /\ meta' = [meta EXCEPT ![r] = [f \in Files |->
                                 IF f \in del THEN NoMeta ELSE meta[r][f]]]
          /\ extPending' = extPending \ {<<r, f>> : f \in del}
     ELSE \E done \in SUBSET present :
          /\ sc' = [sc EXCEPT ![t].phase = "raise",
                              ![t].changes = [f \in Files |->
                                 IF f \in done THEN "deleted" ELSE sc[t].changes[f]]]
          /\ meta' = [meta EXCEPT ![r] = [f \in Files |->
                                 IF f \in done THEN NoMeta ELSE meta[r][f]]]
          /\ extPending' = extPending \ {<<r, f>> : f \in done}
  /\ UNCHANGED <<directories, policy, ioFaults, disk, rootExists, running,
                 is_syncing, waiting, pc, changes, sess, extCount, quiet,
                 disk0, snap0>>

\* ------------------------------------------------------------------ session values
ZeroStats == [files_synced |-> 0, files_deleted |-> 0, conflicts_resolved |-> 0,
              failed_operations |-> 0]

\* SyncManager.__init__, lines 30-42, and the state of one sync_files call:
\* todo = changes whose _process_change task has not run, fut = the collected
\* futures, tasks = the submitted copy / delete tasks that have not run.
\* calls, cands, winner and failed record, per relative path, the calls of
\* resolve_conflict, its argument, its result and whether a copy or delete of
\* the path returned False; faulted holds the copies that returned False and
\* the deletes that left their file in place; typed holds what the operator
\* answered to the prompts of _resolve_manually and logged the paths whose
\* resolution log_resolution has recorded.  succeeded holds the copy and
\* delete tasks whose file operation returned True, incr the calls of
\* _increment_stat in progress and stats_lock the holders of _stats_lock.
\* max_workers is the size of the executor, running_changes and running_tasks
\* the work items a worker has taken up, shut whether the executor has been
\* shut down.
NoSess == [active |-> FALSE, src |-> 0, targets |-> <<>>, todo |-> NoChanges,
           fut |-> [f \in Files |-> "none"], tasks |-> {}, stats |-> ZeroStats,
           collected |-> FALSE, refresh |-> 0, given |-> NoChanges,
           calls |-> [f \in Files |-> 0], cands |-> [f \in Files |-> <<>>],
           winner |-> [f \in Files |-> 0], failed |-> [f \in Files |-> FALSE],
           submitted |-> {}, faulted |-> {},
           typed |-> <<>>, logged |-> {},
           succeeded |-> {}, incr |-> {}, stats_lock |-> {},
           max_workers |-> 0, running_changes |-> {}, running_tasks |-> {},
           shut |-> FALSE]

\* ------------------------------------------------------------------ environment
\* Another process creates, rewrites, touches or deletes a file of a replica.
\* the snapshot entry old describes the file state fs
Recorded(old, fs) ==
  IF fs.ex THEN old.ex /\ old.hash = get_file_hash(fs.c) ELSE ~old.ex

\* a modification by another process reaches the scans in progress
Disturbed == [t \in ThreadIds |-> [sc[t] EXCEPT !.quiet0 = FALSE]]

ExternalWrite ==
  /\ extCount < MaxExternal
  /\ \E d \in Range(directories), f \in Files, fs \in FileStates :
       /\ rootExists[d]
       /\ fs # disk[d][f]
       /\ disk' = [disk EXCEPT ![d][f] = fs]
       /\ extPending' = IF Recorded(meta[d][f], fs) THEN extPending \ {<<d, f>>}
                        ELSE extPending \cup {<<d, f>>}
  /\ extCount' = extCount + 1
  /\ sc' = Disturbed
  /\ UNCHANGED <<directories, policy, ioFaults, rootExists, meta, running,
                 is_syncing, waiting, pc, changes, sess, quiet, disk0, snap0>>

\* Another process removes the root directory of a replica with its files.
RemoveRoot ==
  /\ Cardinality({e \in AllDirs : ~rootExists[e]}) < MaxRemoved
  /\ \E d \in Range(directories) :
       /\ rootExists[d]
       /\ rootExists' = [rootExists EXCEPT ![d] = FALSE]
       /\ disk' = [disk EXCEPT ![d] = [f \in Files |-> NoFile]]
       /\ extPending' = (extPending \ {<<d, f>> : f \in Files})
                          \cup {<<d, f>> : f \in {g \in Files : meta[d][g].ex}}
  /\ sc' = Disturbed
  /\ UNCHANGED <<directories, policy, ioFaults, meta, running, is_syncing,
                 waiting, pc, changes, sess, extCount, quiet, disk0, snap0>>

\* ------------------------------------------------------------------ SpecScan
\* One watcher scanning one replica again and again, from any snapshot and
\* any tree (the tree as other processes left it since the snapshot was taken).
EmptyTree == [f \in Files |-> NoFile]
EmptySnapshot == [f \in Files |-> NoMeta]

InitScan ==
  /\ directories = <<1>>
  /\ policy = "newest_file_wins"
  /\ ioFaults \in BOOLEAN
  /\ \E tree \in [Files -> FileStates] :
       disk = [d \in AllDirs |-> IF d = 1 THEN tree ELSE EmptyTree]
  /\ \E root \in BOOLEAN :
       rootExists = [d \in AllDirs |-> IF d = 1 THEN root ELSE TRUE]
  /\ \A f \in Files : ~rootExists[1] => ~disk[1][f].ex
  /\ \E snap \in [Files -> MetaStates] :
       meta = [d \in AllDirs |-> IF d = 1 THEN snap ELSE EmptySnapshot]
  /\ running = FALSE
  /\ is_syncing = FALSE
  /\ waiting = {}
  /\ pc = [t \in ThreadIds |-> "idle"]
  /\ sc = [t \in ThreadIds |-> NoScan]
  /\ changes = [t \in ThreadIds |-> NoChanges]
  /\ sess = [t \in ThreadIds |-> NoSess]
  /\ extCount = 0
  /\ quiet = FALSE
  /\ extPending = {}
  /\ disk0 = disk
  /\ snap0 = EmptySnapshot

\* a caller invokes watcher.scan_directories(directory)
CallScan ==
  /\ sc[Main].phase = "idle"
  /\ ScanStart(Main, 1)
  /\ snap0' = meta[1]
  /\ UNCHANGED <<directories, policy, ioFaults, disk, rootExists, meta, running,
                 is_syncing, waiting, pc, changes, sess, extCount,
                 quiet, extPending, disk0>>

\* line 124: `return changes`
ReturnScan ==
  /\ sc[Main].phase = "ret"
  /\ changes' = [changes EXCEPT ![Main] = sc[Main].changes]
  /\ sc' = [sc EXCEPT ![Main] = NoScan]
  /\ UNCHANGED <<directories, policy, ioFaults, disk, rootExists, meta, running,
                 is_syncing, waiting, pc, sess, extCount, quiet, extPending,
                 disk0, snap0>>

NextScan ==
  \/ CallScan
  \/ ScanFile(Main)
  \/ ScanTracked(Main)
  \/ ScanDelete(Main)
  \/ ReturnScan

SpecScan == InitScan /\ [][NextScan]_vars

\* C7: when scan_directories returns, every file it could read is classified
\* by the diff of the snapshot it started from against the tree: untracked and
\* on disk => created; tracked and missing => deleted; tracked with another
\* content hash => modified; tracked with the same content hash => no entry,
\* whatever its modification time.
ScanClassifiesBySnapshotDiff ==
  sc[Main].phase = "ret" =>
    \A f \in Files \ sc[Main].errs :
      LET old == snap0[f]
          kind == sc[Main].changes[f]
          here == Exists(sc[Main].dir, f)
          h == get_file_hash(disk[sc[Main].dir][f].c)
      IN /\ (~old.ex /\ here) => kind = "created"
         /\ (old.ex /\ ~here) => kind = "deleted"
         /\ (old.ex /\ here /\ h # old.hash) => kind = "modified"
         /\ (old.ex /\ here /\ h = old.hash) => kind = "none"
         /\ (~old.ex /\ ~here) => kind = "none"

\* a scan returned for a tracked file whose content is unchanged and whose
\* modification time differs from the recorded one
ScanSawTouchedFile ==
  /\ sc[Main].phase = "ret"
  /\ \E f \in Files \ sc[Main].errs :
       /\ snap0[f].ex
       /\ Exists(sc[Main].dir, f)
       /\ get_file_hash(disk[sc[Main].dir][f].c) = snap0[f].hash
       /\ disk[sc[Main].dir][f].t # snap0[f].last_modified
       /\ sc[Main].changes[f] = "none"

\* C21: a file whose timestamp or content cannot be read does not end the
\* scan: the walk goes through every listed file and the scan returns; the
\* failing file has no entry in the returned change set (it is not reported
\* deleted either) and its snapshot entry is as it was when the scan began,
\* while every other listed file is classified.
PerFileErrorSkipsFile ==
  /\ sc[Main].phase # "raise"
  /\ sc[Main].phase \in {"tracked", "delete", "ret"} =>
       sc[Main].existing = Walk(sc[Main].dir)
  /\ sc[Main].phase = "ret" =>
       /\ \A f \in sc[Main].errs :
            /\ sc[Main].changes[f] = "none"
            /\ meta[sc[Main].dir][f] = snap0[f]
       /\ \A f \in Walk(sc[Main].dir) \ sc[Main].errs :
            sc[Main].changes[f] =
              Classify(snap0[f], get_file_hash(disk[sc[Main].dir][f].c),
                       disk[sc[Main].dir][f].t)

\* a scan returned after failing on a tracked file that is on disk with new
\* content, and reported the other file as created
FailedFileSkippedOtherCreated ==
  /\ sc[Main].phase = "ret"
  /\ sc[Main].errs = {1}
  /\ snap0[1].ex
  /\ Exists(sc[Main].dir, 1)
  /\ get_file_hash(disk[sc[Main].dir][1].c) # snap0[1].hash
  /\ sc[Main].changes[2] = "created"

\* C24: when a scan returns without a per-file error the snapshot holds
\* exactly the files on disk, each with the hash of its present content, and
\* the returned change set names only files whose snapshot entry the scan
\* changed; a scan that starts from a snapshot already describing the tree
\* returns the empty change set and leaves the snapshot as it was.
CleanScanLeavesExactSnapshot ==
  sc[Main].phase = "ret" =>
    LET r == sc[Main].dir
        here(f) == IF Exists(r, f) THEN disk[r][f] ELSE NoFile
    IN
    /\ sc[Main].errs = {} =>
         /\ \A f \in Files : Recorded(meta[r][f], here(f))
         /\ \A f \in Files : sc[Main].changes[f] = "none" <=> meta[r][f] = snap0[f]
    /\ (\A f \in Files : Recorded(snap0[f], here(f))) =>
         /\ sc[Main].changes = NoChanges
         /\ meta[r] = snap0

\* the scan before this one reported changes; this one, of the same tree,
\* has returned nothing and the snapshot is the one it started from
SecondScanFoundNothing ==
  /\ sc[Main].phase = "ret"
  /\ ~ioFaults
  /\ changes[Main] # NoChanges
  /\ \E f \in Files : Exists(sc[Main].dir, f)
  /\ sc[Main].changes = NoChanges
  /\ meta[sc[Main].dir] = snap0

\* ------------------------------------------------------------------ ConflictResolver
\* list.sort(key=mtime, reverse=True) is stable: an element goes behind the
\* elements that are newer or equally new and were listed before it.
InsertDescUnstable(x, s) ==
  LET k == Cardinality({i \in 1..Len(s) : s[i][2] > x[2]}) IN
  SubSeq(s, 1, k) \o <<x>> \o SubSeq(s, k + 1, Len(s))

InsertDesc(x, s) ==
  LET k == Cardinality({i \in 1..Len(s) : s[i][2] >= x[2]}) IN
  SubSeq(s, 1, k) \o <<x>> \o SubSeq(s, k + 1, Len(s))

RECURSIVE SortDesc(_)
SortDesc(s) ==
  IF s = <<>> THEN <<>>
  ELSE InsertDesc(s[Len(s)], SortDesc(SubSeq(s, 1, Len(s) - 1)))

\* ConflictResolver._resolve_by_timestamp, were the list sorted ascending
resolve_by_timestamp_oldest(cands, f) ==
  LET files_with_times == [i \in 1..Len(cands) |-> <<cands[i], disk[cands[i]][f].t>>] IN
  SortDesc(files_with_times)[Len(cands)][1]

\* ConflictResolver._resolve_by_timestamp for the copies of file f in the
\* replicas cands
resolve_by_timestamp(cands, f) ==
  LET files_with_times == [i \in 1..Len(cands) |-> <<cands[i], disk[cands[i]][f].t>>] IN
  SortDesc(files_with_times)[1][1]

\* what the operator can type at the prompt: a number or something else
Inputs == {[num |-> FALSE, val |-> 0]}
            \cup {[num |-> TRUE, val |-> v] : v \in (0 - 1)..(NDirs + 1)}

\* int(choice), line 72: <<TRUE, n>>, or <<FALSE, 0>> for ValueError
ParseInt(tok) == IF tok.num THEN <<TRUE, tok.val>> ELSE <<FALSE, 0>>

\* lines 71-77 with the test widened by one at both ends
ValidChoiceWide(tok, n) ==
  /\ ParseInt(tok)[1]
  /\ 0 <= ParseInt(tok)[2] /\ ParseInt(tok)[2] <= n + 1

\* lines 71-77: the answer is a number between 1 and n
ValidChoice(tok, n) ==
  /\ ParseInt(tok)[1]
  /\ 1 <= ParseInt(tok)[2] /\ ParseInt(tok)[2] <= n

\* conflicting_files[choice_idx - 1], line 79; a negative index counts from
\* the end of the list and an index past the end raises (0)
PickChoice(cands, choice_idx) ==
  LET i == choice_idx - 1 IN
  IF 0 <= i /\ i < Len(cands) THEN cands[i + 1]
  ELSE IF i < 0 /\ 0 - i <= Len(cands) THEN cands[Len(cands) + i + 1]
  ELSE 0

\* ConflictResolver._resolve_manually once the operator has typed the valid
\* index choice
resolve_manually(cands, choice) == cands[choice]

\* resolve_conflict line 35 alone
RejectedOnlyShort(cands, f) == Len(cands) < 2

\* resolve_conflict lines 35-39: the checks made before anything else
Rejected(cands, f) ==
  \/ Len(cands) < 2
  \/ \E i \in 1..Len(cands) : ~Exists(cands[i], f)

\* ConflictResolver.resolve_conflict: 0 when it raises, else the winner
resolve_conflict(cands, f, choice) ==
  IF Rejected(cands, f) THEN 0
  ELSE IF policy = "newest_file_wins" THEN resolve_by_timestamp(cands, f)
  ELSE resolve_manually(cands, choice)

\* ------------------------------------------------------------------ SyncManager
CopyTask(from, to, f) == [op |-> "copy", from |-> from, to |-> to, f |-> f]
DeleteTask(to, f) == [op |-> "delete", from |-> 0, to |-> to, f |-> f]

\* [path for path in target_paths if os.path.exists(path)]
existing_targets(targets, f) == SelectSeq(targets, LAMBDA d : Exists(d, f))

\* _handle_file_update, lines 163-175: the copies submitted once a winner is known
WinnerCopiesRecopy(src, targets, f, winner) ==
  IF winner = src
  THEN {CopyTask(src, tp, f) : tp \in Range(targets)}
  ELSE {CopyTask(winner, src, f)} \cup {CopyTask(winner, tp, f) : tp \in Range(targets)}

\* the winner is copied to the source and the source to the other targets
WinnerCopiesViaSource(src, targets, f, winner) ==
  IF winner = src
  THEN {CopyTask(src, tp, f) : tp \in Range(targets)}
  ELSE {CopyTask(winner, src, f)}
         \cup {CopyTask(src, tp, f) : tp \in Range(targets) \ {winner}}

WinnerCopies(src, targets, f, winner) ==
  IF winner = src
  THEN {CopyTask(src, tp, f) : tp \in Range(targets)}
  ELSE {CopyTask(winner, src, f)}
         \cup {CopyTask(winner, tp, f) : tp \in Range(targets) \ {winner}}

\* _handle_file_update, lines 177-181: no target has the path
SourceCopiesFirstOnly(src, targets, f) ==
  {CopyTask(src, targets[i], f) : i \in {j \in 1..Len(targets) : j = 1}}

SourceCopies(src, targets, f) == {CopyTask(src, tp, f) : tp \in Range(targets)}

\* _handle_file_deletion, lines 199-200: one delete per target
DeleteTasksFirstOnly(targets, f) ==
  {DeleteTask(targets[i], f) : i \in {j \in 1..Len(targets) : j = 1}}

DeleteTasks(targets, f) == {DeleteTask(tp, f) : tp \in Range(targets)}

\* SyncManager.__init__ and sync_files lines 82-106: a manager is built for
\* (src, targets) and one _process_change task is submitted per change.
SyncStart(t, src, targets, ch) ==
  sess' = [sess EXCEPT ![t] =
             [NoSess EXCEPT !.active = TRUE, !.src = src, !.targets = targets,
                            !.todo = ch, !.given = ch,
                            !.fut = [f \in Files |->
                                       IF ch[f] = "none" THEN "none" ELSE "pending"]]]

\* A pool worker runs _process_change (lines 126-143) for one change:
\* _handle_file_update (145-181) or _handle_file_deletion (192-200).
ProcessChange(t) ==
  /\ sess[t].active
  /\ \E f \in ChangedFiles(sess[t].todo) :
       LET s == sess[t]
           done == [s EXCEPT !.todo[f] = "none"]
       IN
       IF s.todo[f] = "deleted"
       THEN sess' = [sess EXCEPT ![t] =
                       [done EXCEPT !.fut[f] = "ok",
                                    !.tasks = @ \cup DeleteTasks(s.targets, f),
                                    !.submitted = @ \cup DeleteTasks(s.targets, f)]]
       ELSE LET existing == existing_targets(s.targets, f) IN
            IF existing = <<>>
            THEN sess' = [sess EXCEPT ![t] =
                            [done EXCEPT !.fut[f] = "ok",
                                         !.tasks = @ \cup SourceCopies(s.src, s.targets, f),
                                         !.submitted = @ \cup SourceCopies(s.src, s.targets, f)]]
            ELSE LET conflicting_files == <<s.src>> \o existing IN
                 \E choice \in 1..Len(conflicting_files) :
                   LET winner == resolve_conflict(conflicting_files, f, choice)
                       called == [done EXCEPT !.calls[f] = @ + 1,
                                              !.cands[f] = conflicting_files]
                   IN
                   IF winner = 0
                   THEN sess' = [sess EXCEPT ![t] = [called EXCEPT !.fut[f] = "failed"]]
                   ELSE sess' = [sess EXCEPT ![t] =
                          [called EXCEPT
                             !.fut[f] = "ok",
                             !.winner[f] = winner,
                             !.logged = @ \cup {f},
                             !.stats.conflicts_resolved = @ + 1,
                             !.tasks = @ \cup WinnerCopies(s.src, s.targets, f, winner),
                             !.submitted = @ \cup WinnerCopies(s.src, s.targets, f, winner)]]
  /\ UNCHANGED <<directories, policy, ioFaults, disk, rootExists, meta, running,
                 is_syncing, waiting, pc, sc, changes, extCount,
                 quiet, extPending, disk0, snap0>>

CopyResult(from, to, f) ==
  IF from = to THEN File(0, disk[from][f].t) ELSE disk[from][f]

\* copy_file returned False (FileOperations.py 41-43, 77-81): _copy_file
\* counts nothing and the other tasks of the pool are left alone
CopyFailedAbortsPath(s, task) ==
  [s EXCEPT !.failed[task.f] = TRUE, !.faulted = @ \cup {task},
            !.tasks = {o \in @ : o.f # task.f}]

CopyFailed(s, task) ==
  [s EXCEPT !.failed[task.f] = TRUE, !.faulted = @ \cup {task}]

\* A pool worker runs _copy_file (lines 183-190) / FileOperations.copy_file.
RunCopy(t) ==
  /\ sess[t].active
  /\ \E task \in sess[t].tasks, fault \in {FALSE, ioFaults} :
       /\ task.op = "copy"
       /\ LET rest == [sess[t] EXCEPT !.tasks = @ \ {task}] IN
          IF ~Exists(task.from, task.f) \/ fault
          THEN \* returns False: nothing is counted
               /\ sess' = [sess EXCEPT ![t] = CopyFailed(rest, task)]
               /\ UNCHANGED <<disk, rootExists>>
          ELSE /\ disk' = [disk EXCEPT ![task.to][task.f] =
                                         CopyResult(task.from, task.to, task.f)]
               /\ rootExists' = [rootExists EXCEPT ![task.to] = TRUE]
               /\ sess' = [sess EXCEPT ![t] = [rest EXCEPT !.stats.files_synced = @ + 1]]
  /\ UNCHANGED <<directories, policy, ioFaults, meta, running, is_syncing, waiting, pc, sc, changes, extCount, quiet, extPending, disk0, snap0>>

\* A pool worker runs _delete_file (lines 202-211) / FileOperations.delete_file.
RunDelete(t) ==
  /\ sess[t].active
  /\ \E task \in sess[t].tasks, fault \in {FALSE, ioFaults} :
       /\ task.op = "delete"
       /\ LET rest == [sess[t] EXCEPT !.tasks = @ \ {task}] IN
          IF ~Exists(task.to, task.f) \/ fault
          THEN \* returns False: the file is not there, or os.remove raised
               /\ sess' = [sess EXCEPT ![t] =
                             [rest EXCEPT !.failed[task.f] = TRUE,
                                          !.faulted = IF Exists(task.to, task.f)
                                                      THEN @ \cup {task} ELSE @]]
               /\ UNCHANGED disk
          ELSE /\ disk' = [disk EXCEPT ![task.to][task.f] = NoFile]
               /\ sess' = [sess EXCEPT ![t] = [rest EXCEPT !.stats.files_deleted = @ + 1]]
  /\ UNCHANGED <<directories, policy, ioFaults, rootExists, meta, running,
                 is_syncing, waiting, pc, sc, changes, extCount,
                 quiet, extPending, disk0, snap0>>

\* sync_files lines 108-118 alone: the as_completed loop has seen every
\* _process_change future
SyncDoneFuturesOnly(t) ==
  /\ sess[t].active
  /\ \A f \in Files : sess[t].fut[f] # "pending"

\* sync_files lines 86-123: the as_completed loop has seen every
\* _process_change future and leaving the `with` block has waited for every
\* submitted task
SyncDone(t) ==
  /\ sess[t].active
  /\ \A f \in Files : sess[t].fut[f] # "pending"
  /\ sess[t].tasks = {}

\* sync_files lines 109-121: the futures that raised are counted
Collect(s) ==
  [s EXCEPT !.collected = TRUE,
            !.stats.failed_operations =
               @ + Cardinality({f \in Files : s.fut[f] = "failed"})]

\* ------------------------------------------------------------------ SpecSync
\* One sync_files call of one SyncManager on arbitrary copies of the first
\* file (the other paths exist nowhere), nothing else touching the trees
\* meanwhile.
ChangeKinds == {"none", "created", "modified", "deleted"}

\* only the first of the other replicas is a target
TargetDirsFirstOnly(src) ==
  SubSeq(SelectSeq(directories, LAMBDA d : d # src), 1, 1)

\* main.py line 111: [d for d in self.directories if d != source_dir]
TargetDirs(src) == SelectSeq(directories, LAMBDA d : d # src)

InitSync ==
  /\ directories = [i \in 1..NDirs |-> i]
  /\ policy \in {"newest_file_wins", "manual"}
  /\ ioFaults \in BOOLEAN
  /\ disk \in [AllDirs -> [Files -> FileStates]]
  /\ \A d \in AllDirs, f \in Files \ {1} : disk[d][f] = NoFile
  /\ rootExists = [d \in AllDirs |-> TRUE]
  /\ meta = [d \in AllDirs |-> EmptySnapshot]
  /\ running = FALSE
  /\ is_syncing = FALSE
  /\ waiting = {}
  /\ pc = [t \in ThreadIds |-> IF t = Main THEN "call" ELSE "idle"]
  /\ sc = [t \in ThreadIds |-> NoScan]
  /\ changes = [t \in ThreadIds |-> NoChanges]
  /\ sess = [t \in ThreadIds |-> NoSess]
  /\ extCount = 0
  /\ quiet = FALSE
  /\ extPending = {}
  /\ disk0 = disk
  /\ snap0 = EmptySnapshot

\* a caller builds SyncManager(src, targets, policy) and calls sync_files(ch)
CallSync ==
  /\ pc[Main] = "call"
  /\ \E src \in AllDirs, ch \in [Files -> ChangeKinds] :
       SyncStart(Main, src, TargetDirs(src), ch)
  /\ pc' = [pc EXCEPT ![Main] = "sync"]
  /\ UNCHANGED <<directories, policy, ioFaults, disk, rootExists, meta, running,
                 is_syncing, waiting, sc, changes, extCount, quiet, extPending,
                 disk0, snap0>>

\* sync_files returns to the caller
ReturnSync ==
  /\ pc[Main] = "sync"
  /\ SyncDone(Main)
  /\ pc' = [pc EXCEPT ![Main] = "returned"]
  /\ sess' = [sess EXCEPT ![Main] = Collect(sess[Main])]
  /\ UNCHANGED <<directories, policy, ioFaults, disk, rootExists, meta, running,
                 is_syncing, waiting, sc, changes, extCount, quiet, extPending, disk0, snap0>>

NextSync ==
  \/ CallSync
  \/ ProcessChange(Main)
  \/ RunCopy(Main)
  \/ RunDelete(Main)
  \/ ReturnSync

SpecSync == InitSync /\ [][NextSync]_vars

\* the call under observation, once it has returned
Returned == pc[Main] = "returned"
TheSrc == sess[Main].src
TheTargets == Range(sess[Main].targets)
Updated(f) == sess[Main].given[f] \in {"created", "modified"}
HadTarget(f) == \E tp \in TheTargets : disk0[tp][f].ex
TasksFor(f) == {task \in sess[Main].submitted : task.f = f}

\* C8: a created / modified path that no target had is never handed to
\* resolve_conflict, the source is copied to every target, and if no copy
\* failed every target ends with the source's content.
NoConflictCopiesSourceEverywhere ==
  Returned =>
    \A f \in Files :
      (Updated(f) /\ ~HadTarget(f)) =>
        /\ sess[Main].calls[f] = 0
        /\ sess[Main].stats.conflicts_resolved
             = Cardinality({g \in Files : sess[Main].winner[g] # 0})
        /\ TasksFor(f) = {CopyTask(TheSrc, tp, f) : tp \in TheTargets}
        /\ ~sess[Main].failed[f] =>
             \A tp \in TheTargets :
               /\ Exists(tp, f)
               /\ disk[tp][f].c = disk0[TheSrc][f].c
               /\ disk[TheSrc][f] = disk0[TheSrc][f]

\* a created path present only in the source has been copied to both targets
NoConflictCopied ==
  /\ Returned
  /\ \E f \in Files :
       /\ sess[Main].given[f] = "created"
       /\ ~HadTarget(f)
       /\ disk0[TheSrc][f].ex
       /\ disk0[TheSrc][f].c # 0
       /\ ~sess[Main].failed[f]
       /\ sess[Main].stats.files_synced >= Cardinality(TheTargets)
       /\ \A tp \in TheTargets : disk[tp][f].c = disk0[TheSrc][f].c

\* C9: when resolution picks a winner, a winning target is copied to the
\* source and to every other target, a winning source to every target, the
\* winner is the destination of no copy, and if no copy failed every replica
\* ends with the winner's content.
WinnerPropagatedNeverOverwritten ==
  Returned =>
    \A f \in Files :
      LET w == sess[Main].winner[f] IN
      (Updated(f) /\ w # 0) =>
        /\ TasksFor(f) = {CopyTask(w, d, f) : d \in ({TheSrc} \cup TheTargets) \ {w}}
        /\ \A task \in TasksFor(f) : task.to # w /\ task.from = w
        /\ disk[w][f] = disk0[w][f]
        /\ ~sess[Main].failed[f] =>
             \A d \in {TheSrc} \cup TheTargets :
               Exists(d, f) /\ disk[d][f].c = disk0[w][f].c

\* a target copy won against the source and another target copy, and now
\* every replica holds it
TargetWinnerPropagated ==
  /\ Returned
  /\ \E f \in Files :
       LET w == sess[Main].winner[f] IN
       /\ Updated(f)
       /\ w # 0 /\ w # TheSrc
       /\ Len(sess[Main].cands[f]) = 3
       /\ disk0[w][f].c # disk0[TheSrc][f].c
       /\ disk0[w][f].c # 0
       /\ ~sess[Main].failed[f]
       /\ \A d \in {TheSrc} \cup TheTargets : disk[d][f].c = disk0[w][f].c

\* the candidate list _handle_file_update must build for f
ExpectedCandidates(f) ==
  <<TheSrc>> \o SelectSeq(sess[Main].targets, LAMBDA d : disk0[d][f].ex)

MaxTargetTime(f) ==
  CHOOSE m \in {disk0[d][f].t : d \in {tp \in TheTargets : disk0[tp][f].ex}} :
    \A tp \in TheTargets : disk0[tp][f].ex => disk0[tp][f].t <= m

ResolutionCallsAsClaimed ==
  \A f \in Files :
    Updated(f) =>
      /\ sess[Main].calls[f] = (IF HadTarget(f) THEN 1 ELSE 0)
      /\ sess[Main].calls[f] = 1 => sess[Main].cands[f] = ExpectedCandidates(f)
      /\ (/\ policy = "newest_file_wins"
          /\ HadTarget(f)
          /\ disk0[TheSrc][f].ex
          /\ disk0[TheSrc][f].t = MaxTargetTime(f))
           => /\ sess[Main].winner[f] = TheSrc
              /\ \A task \in TasksFor(f) : task.to # TheSrc

\* C10 as stated: resolve_conflict is called exactly once iff a target has
\* the path, with the source first and the existing targets in target order;
\* conflicts_resolved grows by one per call; under NewestWins a source as new
\* as the newest target wins and is not overwritten.
ConflictsResolvedCountsCalls ==
  Returned =>
    /\ ResolutionCallsAsClaimed
    /\ sess[Main].stats.conflicts_resolved
         = Cardinality({f \in Files : Updated(f) /\ sess[Main].calls[f] = 1})

\* C10 amended: conflicts_resolved grows by one per call that returns a
\* winner; a call that raises because the source copy does not exist leaves
\* it unchanged and the change is counted in failed_operations.
ConflictsResolvedCountsWinners ==
  Returned =>
    /\ ResolutionCallsAsClaimed
    /\ sess[Main].stats.conflicts_resolved
         = Cardinality({f \in Files : Updated(f) /\ sess[Main].calls[f] = 1
                                        /\ disk0[TheSrc][f].ex})
    /\ sess[Main].stats.failed_operations
         = Cardinality({f \in Files : Updated(f) /\ sess[Main].calls[f] = 1
                                        /\ ~disk0[TheSrc][f].ex})

\* under NewestWins the source tied with the newest of two target copies and won
SourceWonTie ==
  /\ Returned
  /\ policy = "newest_file_wins"
  /\ \E f \in Files :
       /\ Updated(f)
       /\ Len(sess[Main].cands[f]) = 3
       /\ disk0[TheSrc][f].ex
       /\ disk0[TheSrc][f].t = MaxTargetTime(f)
       /\ \E tp \in TheTargets : disk0[tp][f].ex /\ disk0[tp][f].t < MaxTargetTime(f)
       /\ sess[Main].winner[f] = TheSrc
       /\ sess[Main].stats.conflicts_resolved >= 1

\* the targets that lost a file they had to a delete of this call
Removed == {<<tp, f>> \in TheTargets \X Files :
              /\ sess[Main].given[f] = "deleted"
              /\ disk0[tp][f].ex
              /\ ~disk[tp][f].ex}

\* C11: for a deleted entry one delete per target is submitted, no exception
\* comes out of it whether or not a target has the path, at the return the
\* path is absent from every target whose delete did not fail, and
\* files_deleted has grown by the number of files actually removed.
DeletedEverywhereAndCounted ==
  Returned =>
    /\ \A f \in Files :
         sess[Main].given[f] = "deleted" =>
           /\ TasksFor(f) = {DeleteTask(tp, f) : tp \in TheTargets}
           /\ sess[Main].fut[f] = "ok"
           /\ \A tp \in TheTargets :
                DeleteTask(tp, f) \notin sess[Main].faulted => ~Exists(tp, f)
           /\ disk[TheSrc][f] = disk0[TheSrc][f]
    /\ sess[Main].stats.files_deleted = Cardinality(Removed)

\* a deleted path that one target had and the other had not: one file removed
DeletedFromOneOfTwo ==
  /\ Returned
  /\ \E f \in Files, tp, tq \in TheTargets :
       /\ sess[Main].given[f] = "deleted"
       /\ disk0[tp][f].ex /\ ~disk[tp][f].ex
       /\ ~disk0[tq][f].ex
       /\ sess[Main].faulted = {}
       /\ sess[Main].stats.files_deleted = 1
       /\ sess[Main].stats.failed_operations = 0

\* C12: sync_files returns only when every task of the call has run, the
\* copies and deletes submitted by the _process_change tasks included; after
\* the return no copy or delete of the call touches a replica or a counter.
AllTasksDoneAtReturn ==
  /\ [](Returned => /\ sess[Main].tasks = {}
                     /\ ChangedFiles(sess[Main].todo) = {}
                     /\ \A f \in Files : sess[Main].fut[f] # "pending")
  /\ [][Returned => /\ disk' = disk
                     /\ sess'[Main].stats = sess[Main].stats]_vars

\* the call has returned after its per-change task submitted one copy per
\* target, which all ran
NestedCopiesRanBeforeReturn ==
  /\ Returned
  /\ Cardinality(TheTargets) > 1
  /\ {task \in sess[Main].submitted : task.op = "copy"}
       = {CopyTask(TheSrc, tp, 1) : tp \in TheTargets}
  /\ sess[Main].stats.files_synced = Cardinality(TheTargets)
  /\ sess[Main].tasks = {}

\* C13: at the return failed_operations equals the number of copies and
\* deletes of the call that failed plus the resolutions that raised.
FailedOperationsCountsFailures ==
  Returned =>
    sess[Main].stats.failed_operations
      = Cardinality(sess[Main].faulted)
          + Cardinality({f \in Files : sess[Main].fut[f] = "failed"})

\* ------------------------------------------------------------------ SpecBatch
\* One sync_files call on a change set of several paths; a path is in a
\* replica or not.
BatchStates == {NoFile, File(1, 1)}

InitBatch ==
  /\ directories = [i \in 1..NDirs |-> i]
  /\ policy \in {"newest_file_wins", "manual"}
  /\ ioFaults \in BOOLEAN
  /\ disk \in [AllDirs -> [Files -> BatchStates]]
  /\ rootExists = [d \in AllDirs |-> TRUE]
  /\ meta = [d \in AllDirs |-> EmptySnapshot]
  /\ running = FALSE
  /\ is_syncing = FALSE
  /\ waiting = {}
  /\ pc = [t \in ThreadIds |-> IF t = Main THEN "call" ELSE "idle"]
  /\ sc = [t \in ThreadIds |-> NoScan]
  /\ changes = [t \in ThreadIds |-> NoChanges]
  /\ sess = [t \in ThreadIds |-> NoSess]
  /\ extCount = 0
  /\ quiet = FALSE
  /\ extPending = {}
  /\ disk0 = disk
  /\ snap0 = EmptySnapshot

SpecBatch == InitBatch /\ [][NextSync]_vars

\* the replica whose copy of f the call propagates: the winner, or the source
\* when no target had f
Origin(f) == IF sess[Main].winner[f] # 0 THEN sess[Main].winner[f] ELSE TheSrc

\* the tasks a processed entry must have submitted
TasksOwed(f) ==
  IF sess[Main].given[f] = "deleted"
  THEN {DeleteTask(tp, f) : tp \in TheTargets}
  ELSE {CopyTask(Origin(f), d, f) : d \in ({TheSrc} \cup TheTargets) \ {Origin(f)}}

\* the task did what it is for
Effective(task) ==
  IF task.op = "delete" THEN ~Exists(task.to, task.f)
  ELSE Exists(task.to, task.f) /\ disk[task.to][task.f].c = disk0[task.from][task.f].c

\* what is left of the call: the changes to process and the tasks to run
Work ==
  IF Returned THEN 0
  ELSE 1 + Cardinality(sess[Main].tasks)
         + NDirs * Cardinality(ChangedFiles(sess[Main].todo))

\* a pool worker has a change to process or a task to run, or the caller can
\* leave sync_files
CanStep ==
  \/ ChangedFiles(sess[Main].todo) # {}
  \/ sess[Main].tasks # {}
  \/ SyncDone(Main)

\* C14: a call of sync_files is never stuck and each of its steps uses up
\* work, so it returns whatever failed; at the return every entry of the
\* change set has been processed whatever happened to the others; an entry
\* whose resolution did not raise has submitted its operation for every
\* replica, and every operation that did not fail itself has taken effect,
\* whichever of its siblings failed.
FailuresStayIsolated ==
  /\ [](pc[Main] = "sync" => CanStep)
  /\ [][pc[Main] = "sync" => Work' < Work]_vars
  /\ [](Returned =>
          /\ \A f \in ChangedFiles(sess[Main].given) :
               /\ sess[Main].todo[f] = "none"
               /\ sess[Main].fut[f] \in {"ok", "failed"}
               /\ sess[Main].fut[f] = "ok" => TasksFor(f) = TasksOwed(f)
               /\ sess[Main].fut[f] = "failed" => TasksFor(f) = {}
          /\ \A task \in sess[Main].submitted \ sess[Main].faulted : Effective(task))

\* the resolution of one path raised, a copy of another path failed, and the
\* sibling of that copy reached its target
FailedBesideSucceeded ==
  /\ Returned
  /\ \E f, g \in Files, task, sibling \in sess[Main].submitted :
       /\ f # g
       /\ sess[Main].fut[f] = "failed"
       /\ task.f = g /\ sibling.f = g
       /\ task \in sess[Main].faulted
       /\ sibling \notin sess[Main].faulted
       /\ sibling.op = "copy"
       /\ Effective(sibling)
       /\ sess[Main].stats.files_synced = 1

\* ------------------------------------------------------------------ SpecResolve
\* One call of ConflictResolver.resolve_conflict on any list of candidate
\* replicas for a path, the operator typing anything at the prompts.
StampStates == {NoFile} \cup {File(0, t) : t \in 1..MaxStamp}

\* the lists of distinct replicas
CandLists ==
  {c \in UNION {[1..n -> AllDirs] : n \in 0..NDirs} :
     \A i, j \in 1..Len(c) : c[i] = c[j] => i = j}

InitResolve ==
  /\ directories = [i \in 1..NDirs |-> i]
  /\ policy \in {"newest_file_wins", "manual"}
  /\ ioFaults = FALSE
  /\ disk \in [AllDirs -> [Files -> StampStates]]
  /\ \A d \in AllDirs, f \in Files \ {1} : disk[d][f] = NoFile
  /\ rootExists = [d \in AllDirs |-> TRUE]
  /\ meta = [d \in AllDirs |-> EmptySnapshot]
  /\ running = FALSE
  /\ is_syncing = FALSE
  /\ waiting = {}
  /\ pc = [t \in ThreadIds |-> IF t = Main THEN "call" ELSE "idle"]
  /\ sc = [t \in ThreadIds |-> NoScan]
  /\ changes = [t \in ThreadIds |-> NoChanges]
  /\ sess = [t \in ThreadIds |-> NoSess]
  /\ extCount = 0
  /\ quiet = FALSE
  /\ extPending = {}
  /\ disk0 = disk
  /\ snap0 = EmptySnapshot

\* resolve_conflict lines 35-49 up to the first prompt of _resolve_manually
CallResolve ==
  /\ pc[Main] = "call"
  /\ \E cands \in CandLists, f \in Files :
       LET called == [NoSess EXCEPT !.calls[f] = 1, !.cands[f] = cands] IN
       IF Rejected(cands, f)
       THEN /\ sess' = [sess EXCEPT ![Main] = called]
            /\ pc' = [pc EXCEPT ![Main] = "raised"]
       ELSE IF policy = "newest_file_wins"
       THEN /\ sess' = [sess EXCEPT ![Main] =
                          [called EXCEPT !.winner[f] = resolve_conflict(cands, f, 1),
                                         !.logged = {f}]]
            /\ pc' = [pc EXCEPT ![Main] = "resolved"]
       ELSE /\ sess' = [sess EXCEPT ![Main] = called]
            /\ pc' = [pc EXCEPT ![Main] = "prompting"]
  /\ UNCHANGED <<directories, policy, ioFaults, disk, rootExists, meta, running,
                 is_syncing, waiting, sc, changes, extCount, quiet, extPending,
                 disk0, snap0>>

\* the path the call is about
AskedFile == CHOOSE f \in Files : sess[Main].calls[f] = 1

\* _resolve_manually lines 69-81: one answer of the operator is read
Prompt ==
  /\ pc[Main] = "prompting"
  /\ \E tok \in Inputs :
       LET f == AskedFile
           cands == sess[Main].cands[f]
           asked == [sess[Main] EXCEPT !.typed = Append(@, tok)]
       IN
       IF ValidChoice(tok, Len(cands))
       THEN LET winner == PickChoice(cands, ParseInt(tok)[2]) IN
            IF winner = 0
            THEN /\ sess' = [sess EXCEPT ![Main] = asked]
                 /\ pc' = [pc EXCEPT ![Main] = "raised"]
            ELSE /\ sess' = [sess EXCEPT ![Main] =
                               [asked EXCEPT !.winner[f] = winner, !.logged = {f}]]
                 /\ pc' = [pc EXCEPT ![Main] = "resolved"]
       ELSE /\ Len(sess[Main].typed) < MaxPrompts
            /\ sess' = [sess EXCEPT ![Main] = asked]
            /\ UNCHANGED pc
  /\ UNCHANGED <<directories, policy, ioFaults, disk, rootExists, meta, running,
                 is_syncing, waiting, sc, changes, extCount, quiet, extPending,
                 disk0, snap0>>

NextResolve ==
  \/ CallResolve
  \/ Prompt

SpecResolve == InitResolve /\ [][NextResolve]_vars

Called == pc[Main] \in {"raised", "resolved", "prompting"}
TheCands == sess[Main].cands[AskedFile]
TheWinner == sess[Main].winner[AskedFile]
Stamp(d) == disk[d][AskedFile].t

\* C15: under NewestWins the winner is a candidate of maximal modification
\* time, and every candidate listed before it is strictly older.
NewestFirstListedWins ==
  (pc[Main] = "resolved" /\ policy = "newest_file_wins") =>
    \E k \in 1..Len(TheCands) :
      /\ TheWinner = TheCands[k]
      /\ \A i \in 1..Len(TheCands) : Stamp(TheCands[i]) <= Stamp(TheWinner)
      /\ \A i \in 1..(k - 1) : Stamp(TheCands[i]) < Stamp(TheWinner)

\* candidates with the times 1, 3, 2: the second one wins
NewestOfThreeWon ==
  /\ pc[Main] = "resolved"
  /\ policy = "newest_file_wins"
  /\ Len(TheCands) = 3
  /\ Stamp(TheCands[1]) = 1 /\ Stamp(TheCands[2]) = 3 /\ Stamp(TheCands[3]) = 2
  /\ TheWinner = TheCands[2]

\* the call was given fewer than two candidates, or one that has no copy
BadCandidates ==
  \/ Len(TheCands) < 2
  \/ \E i \in 1..Len(TheCands) : ~disk[TheCands[i]][AskedFile].ex

\* C16: with fewer than two candidates, or a candidate that does not exist,
\* resolve_conflict raises, and it has chosen no winner, asked the operator
\* nothing and recorded no resolution.
BadCandidatesRaise ==
  (Called /\ BadCandidates) =>
    /\ pc[Main] = "raised"
    /\ TheWinner = 0
    /\ sess[Main].typed = <<>>
    /\ sess[Main].logged = {}

\* under the manual policy, two candidates of which the second has no copy
MissingCandidateRaised ==
  /\ pc[Main] = "raised"
  /\ policy = "manual"
  /\ Len(TheCands) = 2
  /\ disk[TheCands[1]][AskedFile].ex
  /\ ~disk[TheCands[2]][AskedFile].ex
  /\ sess[Main].typed = <<>>

\* the answer is a number between 1 and the number of candidates
GoodAnswer(tok) == tok.num /\ tok.val \in 1..Len(TheCands)

\* C17: manual resolution returns on no answer that is not a number between
\* 1 and the number of candidates: while it prompts every answer so far was
\* such, and when it returns the last answer k is the first good one and the
\* winner is the k-th candidate.
ManualReturnsAtFirstValid ==
  (Called /\ policy = "manual" /\ ~BadCandidates) =>
    LET typed == sess[Main].typed IN
    /\ pc[Main] # "raised"
    /\ pc[Main] = "prompting" => \A i \in 1..Len(typed) : ~GoodAnswer(typed[i])
    /\ pc[Main] = "resolved" =>
         /\ typed # <<>>
         /\ GoodAnswer(typed[Len(typed)])
         /\ \A i \in 1..(Len(typed) - 1) : ~GoodAnswer(typed[i])
         /\ TheWinner = TheCands[typed[Len(typed)].val]

\* the operator typed a word, then a number past the list, then 2: the second
\* of three candidates won
SecondChosenAtThirdPrompt ==
  /\ pc[Main] = "resolved"
  /\ policy = "manual"
  /\ Len(TheCands) = 3
  /\ Len(sess[Main].typed) = 3
  /\ ~sess[Main].typed[1].num
  /\ sess[Main].typed[2].num /\ sess[Main].typed[2].val = 4
  /\ sess[Main].typed[3].num /\ sess[Main].typed[3].val = 2
  /\ TheWinner = TheCands[2]

\* ------------------------------------------------------------------ DirectorySynchronizer
\* The whole program: start() seeds the replicas from the first one, then one
\* watch loop per replica runs; other processes modify the trees at any time.
\* Each `with self.sync_condition:` block is one step (the lock is held from
\* its first to its last statement; wait() releases it while parked).
Loops == Range(directories)

\* a notification that wakes nobody
notify_lost(w) == w

\* Condition.notify_all(): nobody stays parked
notify_all(w) == {}

Init ==
  /\ directories = [i \in 1..NWatched |-> i]
  /\ policy = "newest_file_wins"
  /\ ioFaults = FALSE
  /\ disk = [d \in AllDirs |-> EmptyTree]
  /\ rootExists = [d \in AllDirs |-> TRUE]
  /\ meta = [d \in AllDirs |-> EmptySnapshot]
  /\ running = FALSE
  /\ is_syncing = FALSE
  /\ waiting = {}
  /\ pc = [t \in ThreadIds |-> IF t = Main THEN "start" ELSE "idle"]
  /\ sc = [t \in ThreadIds |-> NoScan]
  /\ changes = [t \in ThreadIds |-> NoChanges]
  /\ sess = [t \in ThreadIds |-> NoSess]
  /\ extCount = 0
  /\ quiet = FALSE
  /\ extPending = {}
  /\ disk0 = disk
  /\ snap0 = EmptySnapshot

\* _initialize_metadata line 55: scan of the first replica
InitScanSource ==
  /\ pc[Main] = "start"
  /\ ScanStart(Main, directories[1])
  /\ pc' = [pc EXCEPT ![Main] = "init_scan"]
  /\ UNCHANGED <<directories, policy, ioFaults, disk, rootExists, meta, running,
                 is_syncing, waiting, changes, sess, extCount, quiet, extPending, disk0,
                 snap0>>

\* _initialize_metadata lines 59-66: every file of the first snapshot is
\* synced as 'created'; SyncManager() raises when the source root is gone
\* and the program exits with status 1.
InitSeed ==
  /\ pc[Main] = "init_scan"
  /\ sc[Main].phase = "ret"
  /\ sc' = [sc EXCEPT ![Main] = NoScan]
  /\ IF rootExists[directories[1]]
     THEN /\ SyncStart(Main, directories[1], TargetDirs(directories[1]),
                       [f \in Files |-> IF meta[directories[1]][f].ex
                                        THEN "created" ELSE "none"])
          /\ pc' = [pc EXCEPT ![Main] = "init_sync"]
     ELSE /\ pc' = [pc EXCEPT ![Main] = "fatal"]
          /\ UNCHANGED sess
  /\ UNCHANGED <<directories, policy, ioFaults, disk, rootExists, meta, running,
                 is_syncing, waiting, changes, extCount, quiet, extPending, disk0, snap0>>

\* the loops are started without baseline scans of the targets
InitTargetsNoBaseline ==
  /\ pc[Main] = "init_sync"
  /\ SyncDone(Main)
  /\ sess' = [sess EXCEPT ![Main] = NoSess]
  /\ running' = TRUE
  /\ pc' = [t \in ThreadIds |-> IF t \in Loops THEN "loop"
                               ELSE IF t = Main THEN "serving" ELSE pc[t]]
  /\ UNCHANGED <<directories, policy, ioFaults, disk, rootExists, meta,
                 is_syncing, waiting, sc, changes, extCount, quiet, extPending,
                 disk0, snap0>>

\* _initialize_metadata lines 70-72: the first target is scanned
InitTargets ==
  /\ pc[Main] = "init_sync"
  /\ SyncDone(Main)
  /\ sess' = [sess EXCEPT ![Main] = [NoSess EXCEPT !.refresh = 2]]
  /\ ScanStart(Main, directories[2])
  /\ pc' = [pc EXCEPT ![Main] = "init_targets"]
  /\ UNCHANGED <<directories, policy, ioFaults, disk, rootExists, meta, running,
                 is_syncing, waiting, changes, extCount, quiet, extPending, disk0, snap0>>

\* lines 70-72, next target; then start() lines 149-157: running is set and
\* one watch loop per replica is submitted
InitNextTarget ==
  /\ pc[Main] = "init_targets"
  /\ sc[Main].phase = "ret"
  /\ IF sess[Main].refresh < Len(directories)
     THEN /\ ScanStart(Main, directories[sess[Main].refresh + 1])
          /\ sess' = [sess EXCEPT ![Main].refresh = @ + 1]
          /\ UNCHANGED <<pc, running>>
     ELSE /\ sc' = [sc EXCEPT ![Main] = NoScan]
          /\ sess' = [sess EXCEPT ![Main] = NoSess]
          /\ running' = TRUE
          /\ pc' = [t \in ThreadIds |-> IF t \in Loops THEN "loop"
                                       ELSE IF t = Main THEN "serving" ELSE pc[t]]
  /\ UNCHANGED <<directories, policy, ioFaults, disk, rootExists, meta,
                 is_syncing, waiting, changes, extCount, quiet, extPending, disk0, snap0>>

\* stop(), lines 170-172
Stop ==
  /\ pc[Main] = "serving"
  /\ running' = FALSE
  /\ waiting' = notify_all(waiting)
  /\ pc' = [pc EXCEPT ![Main] = "stopped"]
  /\ UNCHANGED <<directories, policy, ioFaults, disk, rootExists, meta,
                 is_syncing, sc, changes, sess, extCount, quiet, extPending, disk0, snap0>>

\* _watch_directory lines 79-89, entered at the top of the loop (after the
\* sleep of line 102 or 106) or resumed after a notify: park while a session
\* is active, leave the loop when stopped, else go on to scan
CheckWait(d) ==
  /\ \/ pc[d] = "loop"
     \/ pc[d] = "wait" /\ d \notin waiting
  /\ IF is_syncing /\ running
     THEN /\ waiting' = waiting \cup {d}
          /\ pc' = [pc EXCEPT ![d] = "wait"]
     ELSE /\ pc' = [pc EXCEPT ![d] = IF running THEN "poll" ELSE "done"]
          /\ UNCHANGED waiting
  /\ UNCHANGED <<directories, policy, ioFaults, disk, rootExists, meta, running,
                 is_syncing, sc, changes, sess, extCount, quiet, extPending, disk0, snap0>>

\* line 93: the polling scan starts
PollStart(d) ==
  /\ pc[d] = "poll"
  /\ ScanStart(d, d)
  /\ pc' = [pc EXCEPT ![d] = "polling"]
  /\ UNCHANGED <<directories, policy, ioFaults, disk, rootExists, meta, running,
                 is_syncing, waiting, changes, sess, extCount, quiet, extPending, disk0,
                 snap0>>

\* every returned change set, the empty one too, goes on to a session
PollReturnAlwaysMarks(d) ==
  /\ pc[d] = "polling"
  /\ sc[d].phase = "ret"
  /\ changes' = [changes EXCEPT ![d] = sc[d].changes]
  /\ sc' = [sc EXCEPT ![d] = NoScan]
  /\ pc' = [pc EXCEPT ![d] = "mark"]
  /\ UNCHANGED <<directories, policy, ioFaults, disk, rootExists, meta, running,
                 is_syncing, waiting, sess, extCount, quiet, extPending, disk0, snap0>>

\* lines 93-95 and 102: the polling scan returns its change set
PollReturn(d) ==
  /\ pc[d] = "polling"
  /\ sc[d].phase = "ret"
  /\ changes' = [changes EXCEPT ![d] = sc[d].changes]
  /\ sc' = [sc EXCEPT ![d] = NoScan]
  /\ pc' = [pc EXCEPT ![d] = IF sc[d].changes # NoChanges THEN "mark" ELSE "loop"]
  /\ UNCHANGED <<directories, policy, ioFaults, disk, rootExists, meta, running,
                 is_syncing, waiting, sess, extCount, quiet, extPending, disk0, snap0>>

\* lines 104-106: the polling scan raised
PollRaise(d) ==
  /\ pc[d] = "polling"
  /\ sc[d].phase = "raise"
  /\ sc' = [sc EXCEPT ![d] = NoScan]
  /\ pc' = [pc EXCEPT ![d] = "loop"]
  /\ UNCHANGED <<directories, policy, ioFaults, disk, rootExists, meta, running,
                 is_syncing, waiting, changes, sess, extCount, quiet, extPending, disk0,
                 snap0>>

\* lines 97-98
MarkSyncing(d) ==
  /\ pc[d] = "mark"
  /\ is_syncing' = TRUE
  /\ pc' = [pc EXCEPT ![d] = "handle"]
  /\ UNCHANGED <<directories, policy, ioFaults, disk, rootExists, meta, running,
                 waiting, sc, changes, sess, extCount, quiet, extPending, disk0, snap0>>

\* _handle_changes lines 111-126: SyncManager() is built outside the try
\* block; when it raises (source root gone) the exception reaches line 104
\* and neither the except nor the finally clause of _handle_changes runs.
HandleChanges(d) ==
  /\ pc[d] = "handle"
  /\ changes' = [changes EXCEPT ![d] = NoChanges]
  /\ IF rootExists[d]
     THEN /\ SyncStart(d, d, TargetDirs(d), changes[d])
          /\ pc' = [pc EXCEPT ![d] = "sync"]
     ELSE /\ pc' = [pc EXCEPT ![d] = "loop"]
          /\ UNCHANGED sess
  /\ UNCHANGED <<directories, policy, ioFaults, disk, rootExists, meta, running,
                 is_syncing, waiting, sc, extCount, quiet, extPending, disk0, snap0>>

\* lines 128-132: sync_files has returned, the refresh scans start
RefreshStart(d) ==
  /\ pc[d] = "sync"
  /\ SyncDone(d)
  /\ sess' = [sess EXCEPT ![d] = [NoSess EXCEPT !.refresh = 1]]
  /\ ScanStart(d, directories[1])
  /\ pc' = [pc EXCEPT ![d] = "refresh"]
  /\ UNCHANGED <<directories, policy, ioFaults, disk, rootExists, meta, running,
                 is_syncing, waiting, changes, extCount, quiet, extPending, disk0, snap0>>

\* lines 130-132: one refresh scan has returned (its change set is dropped)
RefreshNext(d) ==
  /\ pc[d] = "refresh"
  /\ sc[d].phase = "ret"
  /\ IF sess[d].refresh < Len(directories)
     THEN /\ ScanStart(d, directories[sess[d].refresh + 1])
          /\ sess' = [sess EXCEPT ![d].refresh = @ + 1]
          /\ UNCHANGED pc
     ELSE /\ sc' = [sc EXCEPT ![d] = NoScan]
          /\ sess' = [sess EXCEPT ![d] = NoSess]
          /\ pc' = [pc EXCEPT ![d] = "clear"]
  /\ UNCHANGED <<directories, policy, ioFaults, disk, rootExists, meta, running,
                 is_syncing, waiting, changes, extCount, quiet, extPending, disk0, snap0>>

\* lines 134-135: a refresh scan raised
RefreshRaise(d) ==
  /\ pc[d] = "refresh"
  /\ sc[d].phase = "raise"
  /\ sc' = [sc EXCEPT ![d] = NoScan]
  /\ sess' = [sess EXCEPT ![d] = NoSess]
  /\ pc' = [pc EXCEPT ![d] = "clear"]
  /\ UNCHANGED <<directories, policy, ioFaults, disk, rootExists, meta, running,
                 is_syncing, waiting, changes, extCount, quiet, extPending, disk0, snap0>>

\* line 138: the flag is cleared without holding the lock
ClearSyncing(d) ==
  /\ pc[d] = "clear"
  /\ is_syncing' = FALSE
  /\ quiet' = TRUE
  /\ pc' = [pc EXCEPT ![d] = "notify"]
  /\ UNCHANGED <<directories, policy, ioFaults, disk, rootExists, meta, running,
                 waiting, sc, changes, sess, extCount, extPending, disk0,
                 snap0>>

\* lines 139-141 and 102
NotifyAll(d) ==
  /\ pc[d] = "notify"
  /\ waiting' = notify_all(waiting)
  /\ pc' = [pc EXCEPT ![d] = "loop"]
  /\ UNCHANGED <<directories, policy, ioFaults, disk, rootExists, meta, running,
                 is_syncing, sc, changes, sess, extCount, quiet, extPending, disk0, snap0>>

\* everything the thread t can do
ThreadStep(t) ==
  \/ ScanFile(t)
  \/ ScanTracked(t)
  \/ ScanDelete(t)
  \/ ProcessChange(t)
  \/ RunCopy(t)
  \/ RunDelete(t)

LoopStep(d) ==
  \/ CheckWait(d)
  \/ PollStart(d)
  \/ PollReturn(d)
  \/ PollRaise(d)
  \/ MarkSyncing(d)
  \/ HandleChanges(d)
  \/ RefreshStart(d)
  \/ RefreshNext(d)
  \/ RefreshRaise(d)
  \/ ClearSyncing(d)
  \/ NotifyAll(d)

MainStep ==
  \/ InitScanSource
  \/ InitSeed
  \/ InitTargets
  \/ InitNextTarget

Next ==
  \/ MainStep
  \/ Stop
  \/ \E t \in ThreadIds : ThreadStep(t)
  \/ \E d \in AllDirs : LoopStep(d)
  \/ ExternalWrite
  \/ RemoveRoot

Spec == Init /\ [][Next]_vars

\* the scheduler runs every thread that can take a step; other processes and
\* the operator's interrupt owe nothing
FairSpec ==
  /\ Spec
  /\ WF_vars(MainStep)
  /\ \A t \in ThreadIds : WF_vars(ThreadStep(t))
  /\ \A d \in 1..NWatched : WF_vars(LoopStep(d))

\* ------------------------------------------------------------------ SpecE2E
\* Two replicas under NewestWins: the first starts with one file (content 1,
\* time 1), the second empty.  Once both hold it and no scan is running, the
\* first copy is rewritten (content 2, time 2) and the second copy rewritten
\* later (content 3, time 3); nothing else is touched from outside.
InitE2E ==
  /\ directories = [i \in 1..NWatched |-> i]
  /\ policy = "newest_file_wins"
  /\ ioFaults = FALSE
  /\ disk = [d \in AllDirs |-> [f \in Files |->
                IF d = 1 /\ f = 1 THEN File(1, 1) ELSE NoFile]]
  /\ rootExists = [d \in AllDirs |-> TRUE]
  /\ meta = [d \in AllDirs |-> EmptySnapshot]
  /\ running = FALSE
  /\ is_syncing = FALSE
  /\ waiting = {}
  /\ pc = [t \in ThreadIds |-> IF t = Main THEN "start" ELSE "idle"]
  /\ sc = [t \in ThreadIds |-> NoScan]
  /\ changes = [t \in ThreadIds |-> NoChanges]
  /\ sess = [t \in ThreadIds |-> NoSess]
  /\ extCount = 0
  /\ quiet = FALSE
  /\ extPending = {}
  /\ disk0 = disk
  /\ snap0 = EmptySnapshot

\* both copies are rewritten between two scans
EditBoth ==
  /\ pc[Main] = "serving"
  /\ extCount = 0
  /\ disk[1][1] = File(1, 1)
  /\ disk[2][1].ex /\ disk[2][1].c = 1
  /\ \A t \in ThreadIds : sc[t] = NoScan
  /\ disk' = [disk EXCEPT ![1][1] = File(2, 2), ![2][1] = File(3, 3)]
  /\ extPending' = {<<1, 1>>, <<2, 1>>}
  /\ extCount' = 1
  /\ UNCHANGED <<directories, policy, ioFaults, rootExists, meta, running,
                 is_syncing, waiting, pc, sc, changes, sess, quiet, disk0, snap0>>

\* Two sessions can run side by side here, so a copy is taken as
\* FileOperations.copy_file makes it: the destination is opened for writing,
\* which empties it and stamps it with the present time, and only then is the
\* source read.  Modification times are only ever compared with each other
\* (ConflictResolver.py line 112), so they are kept as ranks.
Stamps(dk) == {dk[d][f].t : d \in AllDirs, f \in Files}

Newest(dk) == CHOOSE m \in Stamps(dk) : \A u \in Stamps(dk) : u <= m

Ranked(dk) ==
  [d \in AllDirs |-> [f \in Files |->
     IF dk[d][f].ex
     THEN File(dk[d][f].c,
               Cardinality({u \in Stamps(dk) \ {0} : u <= dk[d][f].t}))
     ELSE NoFile]]

WriteTask(from, to, f) == [op |-> "write", from |-> from, to |-> to, f |-> f]

\* copy_file lines 41-55: both files are opened
CopyOpen(t) ==
  /\ sess[t].active
  /\ \E task \in sess[t].tasks, fault \in {FALSE, ioFaults} :
       /\ task.op = "copy"
       /\ LET rest == [sess[t] EXCEPT !.tasks = @ \ {task}] IN
          IF ~Exists(task.from, task.f) \/ fault
          THEN /\ sess' = [sess EXCEPT ![t] = CopyFailed(rest, task)]
               /\ UNCHANGED disk
          ELSE /\ disk' = Ranked([disk EXCEPT ![task.to][task.f] =
                                              File(0, Newest(disk) + 1)])
               /\ sess' = [sess EXCEPT ![t] =
                             [rest EXCEPT !.tasks = @ \cup
                                {WriteTask(task.from, task.to, task.f)}]]
  /\ UNCHANGED <<directories, policy, ioFaults, rootExists, meta, running,
                 is_syncing, waiting, pc, sc, changes, extCount, quiet,
                 extPending, disk0, snap0>>

\* copy_file lines 56-75: what the source holds now is written, then
\* copystat gives the destination the source's modification time
CopyWrite(t) ==
  /\ sess[t].active
  /\ \E task \in sess[t].tasks :
       /\ task.op = "write"
       /\ disk' = Ranked([disk EXCEPT ![task.to][task.f] = disk[task.from][task.f]])
       /\ sess' = [sess EXCEPT ![t] = [@ EXCEPT !.tasks = @ \ {task},
                                                !.stats.files_synced = @ + 1]]
  /\ UNCHANGED <<directories, policy, ioFaults, rootExists, meta, running,
                 is_syncing, waiting, pc, sc, changes, extCount, quiet,
                 extPending, disk0, snap0>>

\* the pool workers and scans of thread t; nothing is ever deleted here
ThreadStepE2E(t) ==
  \/ ScanFile(t)
  \/ ScanTracked(t)
  \/ ScanDelete(t)
  \/ ProcessChange(t)
  \/ CopyOpen(t)
  \/ CopyWrite(t)

\* the watch loop of replica d; no scan raises here
LoopStepE2E(d) ==
  \/ CheckWait(d)
  \/ PollStart(d)
  \/ PollReturn(d)
  \/ MarkSyncing(d)
  \/ HandleChanges(d)
  \/ RefreshStart(d)
  \/ RefreshNext(d)
  \/ ClearSyncing(d)
  \/ NotifyAll(d)

NextE2E ==
  \/ MainStep
  \/ \E t \in ThreadIds : ThreadStepE2E(t)
  \/ \E d \in AllDirs : LoopStepE2E(d)
  \/ EditBoth

SpecE2E == InitE2E /\ [][NextE2E]_vars

FairE2E ==
  /\ SpecE2E
  /\ WF_vars(MainStep)
  /\ \A t \in ThreadIds : WF_vars(ThreadStepE2E(t))
  /\ \A d \in 1..NWatched : WF_vars(LoopStepE2E(d))

\* C18: after startup the second replica holds the first one's file; once
\* both copies have been rewritten, the second one later, the replicas come
\* to hold the second replica's content (3) both, and the first replica's
\* rewritten content (2) is never written to the second.
NewerTargetEditWins ==
  /\ [](pc[Main] = "serving" => disk[2][1].ex)
  /\ (extCount = 1) ~> (disk[1][1].c = 3 /\ disk[2][1].c = 3)
  /\ [](~(disk[2][1].ex /\ disk[2][1].c = 2))

\* the steps left out of this scenario can never be taken in it
NothingDeletedOrRaised ==
  /\ \A t \in ThreadIds : sc[t].phase # "raise"
  /\ \A t \in ThreadIds : \A task \in sess[t].tasks : task.op # "delete"
  /\ \A d \in AllDirs : rootExists[d]

\* what a file holds once every submitted task has run, whatever the order:
\* the file the one task aimed at it copied there as it was at the start of
\* the call, nothing after a delete, and what it held before otherwise
Outcome(d, f) ==
  LET aimed == {task \in sess[Main].submitted \ sess[Main].faulted :
                  task.to = d /\ task.f = f}
  IN IF aimed = {} THEN disk0[d][f]
     ELSE LET task == CHOOSE a \in aimed : TRUE IN
          IF task.op = "delete" THEN NoFile ELSE disk0[task.from][f]

\* C27: in one sync_files call no copy has its source as destination, no two
\* tasks have the same destination path, no task's destination is the source
\* path of a copy of the call, each submit call made a task of its own (one
\* per target for a path), and when the call returns every file holds what
\* the tasks aimed at it determine, whatever order they ran in.
TasksNeverOverlap ==
  pc[Main] \in {"sync", "returned"} =>
    /\ \A a \in sess[Main].submitted : a.op = "copy" => a.from # a.to
    /\ \A a, b \in sess[Main].submitted :
         a # b => /\ ~(a.to = b.to /\ a.f = b.f)
                  /\ b.op = "copy" => ~(a.to = b.from /\ a.f = b.f)
    /\ \A f \in Files :
         TasksFor(f) # {} => Cardinality(TasksFor(f)) = Len(sess[Main].targets)
    /\ Returned => \A d \in AllDirs, f \in Files : disk[d][f] = Outcome(d, f)

\* a call has returned after a target's copy won: it was copied to the
\* source and to the other target, and a second path was deleted in both
\* targets
WinnerCopiedBesideDeletes ==
  /\ Returned
  /\ sess[Main].faulted = {}
  /\ \E f, g \in Files, w \in TheTargets :
       /\ f # g
       /\ sess[Main].winner[f] = w
       /\ TasksFor(f) = {CopyTask(w, d, f) : d \in AllDirs \ {w}}
       /\ TasksFor(g) = {DeleteTask(d, g) : d \in TheTargets}
       /\ \A d \in TheTargets : disk0[d][g].ex /\ ~disk[d][g].ex

\* ------------------------------------------------------------------ statistics
\* One sync_files call in which every counter update of a copy or delete task
\* is taken apart: the file operation, then _increment_stat entering
\* `with self._stats_lock`, reading the counter, and writing it back.
Incr(task, stat, phase, reg) ==
  [task |-> task, stat |-> stat, phase |-> phase, reg |-> reg]

InitStats ==
  /\ directories = [i \in 1..NDirs |-> i]
  /\ policy = "newest_file_wins"
  /\ ioFaults \in BOOLEAN
  /\ disk \in [AllDirs -> [Files -> BatchStates]]
  /\ \A d \in AllDirs, f \in Files \ {1} : disk[d][f] = NoFile
  /\ rootExists = [d \in AllDirs |-> TRUE]
  /\ meta = [d \in AllDirs |-> EmptySnapshot]
  /\ running = FALSE
  /\ is_syncing = FALSE
  /\ waiting = {}
  /\ pc = [t \in ThreadIds |-> IF t = Main THEN "call" ELSE "idle"]
  /\ sc = [t \in ThreadIds |-> NoScan]
  /\ changes = [t \in ThreadIds |-> NoChanges]
  /\ sess = [t \in ThreadIds |-> NoSess]
  /\ extCount = 0
  /\ quiet = FALSE
  /\ extPending = {}
  /\ disk0 = disk
  /\ snap0 = EmptySnapshot

\* _copy_file line 187: FileOperations.copy_file runs and returns
CopyFile(t) ==
  /\ sess[t].active
  /\ \E task \in sess[t].tasks, fault \in {FALSE, ioFaults} :
       /\ task.op = "copy"
       /\ LET rest == [sess[t] EXCEPT !.tasks = @ \ {task}] IN
          IF ~Exists(task.from, task.f) \/ fault
          THEN /\ sess' = [sess EXCEPT ![t] = CopyFailed(rest, task)]
               /\ UNCHANGED disk
          ELSE /\ disk' = [disk EXCEPT ![task.to][task.f] =
                                         CopyResult(task.from, task.to, task.f)]
               /\ sess' = [sess EXCEPT ![t] =
                    [rest EXCEPT !.succeeded = @ \cup {task},
                                 !.incr = @ \cup {Incr(task, "files_synced", "want", 0)}]]
  /\ UNCHANGED <<directories, policy, ioFaults, rootExists, meta, running,
                 is_syncing, waiting, pc, sc, changes, extCount, quiet,
                 extPending, disk0, snap0>>

\* _delete_file line 207: FileOperations.delete_file runs and returns
DeleteFile(t) ==
  /\ sess[t].active
  /\ \E task \in sess[t].tasks, fault \in {FALSE, ioFaults} :
       /\ task.op = "delete"
       /\ LET rest == [sess[t] EXCEPT !.tasks = @ \ {task}] IN
          IF ~Exists(task.to, task.f) \/ fault
          THEN /\ sess' = [sess EXCEPT ![t] =
                             [rest EXCEPT !.failed[task.f] = TRUE,
                                          !.faulted = IF Exists(task.to, task.f)
                                                      THEN @ \cup {task} ELSE @]]
               /\ UNCHANGED disk
          ELSE /\ disk' = [disk EXCEPT ![task.to][task.f] = NoFile]
               /\ sess' = [sess EXCEPT ![t] =
                    [rest EXCEPT !.succeeded = @ \cup {task},
                                 !.incr = @ \cup {Incr(task, "files_deleted", "want", 0)}]]
  /\ UNCHANGED <<directories, policy, ioFaults, rootExists, meta, running,
                 is_syncing, waiting, pc, sc, changes, extCount, quiet,
                 extPending, disk0, snap0>>

\* the counter is read without waiting for the lock
AcquireStatsUnlocked(t) ==
  /\ sess[t].active
  /\ \E i \in sess[t].incr :
       /\ i.phase = "want"
       /\ sess' = [sess EXCEPT ![t] =
            [@ EXCEPT !.stats_lock = @ \cup {i.task},
                      !.incr = (@ \ {i}) \cup {Incr(i.task, i.stat, "locked", 0)}]]
  /\ UNCHANGED <<directories, policy, ioFaults, disk, rootExists, meta, running,
                 is_syncing, waiting, pc, sc, changes, extCount, quiet,
                 extPending, disk0, snap0>>

\* _increment_stat line 74: `with self._stats_lock:` is entered when the
\* lock is free
AcquireStats(t) ==
  /\ sess[t].active
  /\ sess[t].stats_lock = {}
  /\ \E i \in sess[t].incr :
       /\ i.phase = "want"
       /\ sess' = [sess EXCEPT ![t] =
            [@ EXCEPT !.stats_lock = {i.task},
                      !.incr = (@ \ {i}) \cup {Incr(i.task, i.stat, "locked", 0)}]]
  /\ UNCHANGED <<directories, policy, ioFaults, disk, rootExists, meta, running,
                 is_syncing, waiting, pc, sc, changes, extCount, quiet,
                 extPending, disk0, snap0>>

\* line 75, first half of `+= 1`: the counter is read
LoadStat(t) ==
  /\ sess[t].active
  /\ \E i \in sess[t].incr :
       /\ i.phase = "locked"
       /\ sess' = [sess EXCEPT ![t].incr =
            (@ \ {i}) \cup {Incr(i.task, i.stat, "loaded", sess[t].stats[i.stat])}]
  /\ UNCHANGED <<directories, policy, ioFaults, disk, rootExists, meta, running,
                 is_syncing, waiting, pc, sc, changes, extCount, quiet,
                 extPending, disk0, snap0>>

\* line 75, second half: the sum is written and the lock released
StoreStat(t) ==
  /\ sess[t].active
  /\ \E i \in sess[t].incr :
       /\ i.phase = "loaded"
       /\ sess' = [sess EXCEPT ![t] =
            [@ EXCEPT !.stats[i.stat] = i.reg + 1,
                      !.stats_lock = @ \ {i.task},
                      !.incr = @ \ {i}]]
  /\ UNCHANGED <<directories, policy, ioFaults, disk, rootExists, meta, running,
                 is_syncing, waiting, pc, sc, changes, extCount, quiet,
                 extPending, disk0, snap0>>

\* the `with ThreadPoolExecutor` block ends when every task has returned
ReturnStats ==
  /\ pc[Main] = "sync"
  /\ SyncDone(Main)
  /\ sess[Main].incr = {}
  /\ pc' = [pc EXCEPT ![Main] = "returned"]
  /\ sess' = [sess EXCEPT ![Main] = Collect(sess[Main])]
  /\ UNCHANGED <<directories, policy, ioFaults, disk, rootExists, meta, running,
                 is_syncing, waiting, sc, changes, extCount, quiet, extPending, disk0, snap0>>

NextStats ==
  \/ CallSync
  \/ ProcessChange(Main)
  \/ CopyFile(Main)
  \/ DeleteFile(Main)
  \/ AcquireStats(Main)
  \/ LoadStat(Main)
  \/ StoreStat(Main)
  \/ ReturnStats

SpecStats == InitStats /\ [][NextStats]_vars

StatNames == {"files_synced", "files_deleted", "conflicts_resolved", "failed_operations"}

Succeeded(op) == {task \in sess[Main].succeeded : task.op = op}

\* C23: during a sync_files call no counter ever goes down, files_synced and
\* files_deleted change only while a task holds _stats_lock, and at most one
\* task holds it; when the call returns files_synced is the number of copy
\* tasks whose copy succeeded and files_deleted the number of delete tasks
\* whose delete succeeded.
StatsExactAndMonotone ==
  /\ [][pc[Main] = "sync" =>
          \A n \in StatNames : sess'[Main].stats[n] >= sess[Main].stats[n]]_vars
  /\ [][\A n \in {"files_synced", "files_deleted"} :
          sess'[Main].stats[n] # sess[Main].stats[n] =>
            \E task \in sess[Main].stats_lock : task \notin sess'[Main].stats_lock]_vars
  /\ [](Cardinality(sess[Main].stats_lock) <= 1)
  /\ [](Returned =>
          /\ sess[Main].stats.files_synced = Cardinality(Succeeded("copy"))
          /\ sess[Main].stats.files_deleted = Cardinality(Succeeded("delete")))

\* two copies of one call have succeeded; one is between reading and writing
\* files_synced while the other waits for the lock
SecondCopyWaitsForLock ==
  /\ pc[Main] = "sync"
  /\ Cardinality(Succeeded("copy")) = 2
  /\ \E i, j \in sess[Main].incr :
       /\ i.stat = "files_synced" /\ i.phase = "loaded"
       /\ j.stat = "files_synced" /\ j.phase = "want"

\* ------------------------------------------------------------------ worker pool
\* One sync_files call on an executor of max_workers threads.  A work item
\* occupies a worker from the moment it is taken from the queue until it has
\* run; the queue is first in, first out, and the _process_change items are
\* all queued before any of them runs (lines 89-106).
MaxWorkers == 2

InitPool ==
  /\ directories = [i \in 1..NDirs |-> i]
  /\ policy = "newest_file_wins"
  /\ ioFaults = FALSE
  /\ disk \in [AllDirs -> [Files -> BatchStates]]
  /\ \A d \in AllDirs, f \in Files \ {1} : disk[d][f] = NoFile
  /\ rootExists = [d \in AllDirs |-> TRUE]
  /\ meta = [d \in AllDirs |-> EmptySnapshot]
  /\ running = FALSE
  /\ is_syncing = FALSE
  /\ waiting = {}
  /\ pc = [t \in ThreadIds |-> IF t = Main THEN "call" ELSE "idle"]
  /\ sc = [t \in ThreadIds |-> NoScan]
  /\ changes = [t \in ThreadIds |-> NoChanges]
  /\ sess = [t \in ThreadIds |-> NoSess]
  /\ extCount = 0
  /\ quiet = FALSE
  /\ extPending = {}
  /\ disk0 = disk
  /\ snap0 = EmptySnapshot

\* a _process_change item keeps its worker until its own nested tasks have run
ChangeBusyUntilNested(f) ==
  /\ f \in sess[Main].running_changes
  /\ \/ sess[Main].todo[f] # "none"
     \/ \E task \in sess[Main].tasks : task.f = f

\* a worker is running _process_change for f: the item returns once it has
\* submitted its copies or deletes (lines 167-181 and 200: no result() call)
ChangeBusy(f) ==
  /\ f \in sess[Main].running_changes
  /\ sess[Main].todo[f] # "none"

BusyWorkers ==
  Cardinality({f \in Files : ChangeBusy(f)})
    + Cardinality(sess[Main].running_tasks \cap sess[Main].tasks)

\* SyncManager(..., max_workers = w).sync_files(ch), lines 86-106
CallPool ==
  /\ pc[Main] = "call"
  /\ \E src \in AllDirs, ch \in [Files -> ChangeKinds], w \in 1..MaxWorkers :
       sess' = [sess EXCEPT ![Main] =
                  [NoSess EXCEPT !.active = TRUE, !.src = src,
                                 !.targets = TargetDirs(src),
                                 !.todo = ch, !.given = ch,
                                 !.fut = [f \in Files |->
                                            IF ch[f] = "none" THEN "none" ELSE "pending"],
                                 !.max_workers = w]]
  /\ pc' = [pc EXCEPT ![Main] = "sync"]
  /\ UNCHANGED <<directories, policy, ioFaults, disk, rootExists, meta, running,
                 is_syncing, waiting, sc, changes, extCount, quiet, extPending,
                 disk0, snap0>>

\* an idle worker takes the next _process_change item from the queue
StartChange ==
  /\ pc[Main] = "sync"
  /\ BusyWorkers < sess[Main].max_workers
  /\ \E f \in ChangedFiles(sess[Main].todo) \ sess[Main].running_changes :
       sess' = [sess EXCEPT ![Main].running_changes = @ \cup {f}]
  /\ UNCHANGED <<directories, policy, ioFaults, disk, rootExists, meta, running,
                 is_syncing, waiting, pc, sc, changes, extCount, quiet, extPending,
                 disk0, snap0>>

\* an idle worker takes a copy or delete item; they are queued behind every
\* _process_change item
StartTask ==
  /\ pc[Main] = "sync"
  /\ BusyWorkers < sess[Main].max_workers
  /\ ChangedFiles(sess[Main].todo) \subseteq sess[Main].running_changes
  /\ \E task \in sess[Main].tasks \ sess[Main].running_tasks :
       sess' = [sess EXCEPT ![Main].running_tasks = @ \cup {task}]
  /\ UNCHANGED <<directories, policy, ioFaults, disk, rootExists, meta, running,
                 is_syncing, waiting, pc, sc, changes, extCount, quiet, extPending,
                 disk0, snap0>>

\* the worker runs _process_change; executor.submit raises RuntimeError once
\* the executor has been shut down, and the item ends with that exception
PoolChange ==
  /\ pc[Main] = "sync"
  /\ \E f \in sess[Main].running_changes :
       /\ sess[Main].todo[f] # "none"
       /\ IF sess[Main].shut
          THEN /\ sess' = [sess EXCEPT ![Main].todo[f] = "none",
                                       ![Main].fut[f] = "failed"]
               /\ UNCHANGED <<directories, policy, ioFaults, disk, rootExists,
                              meta, running, is_syncing, waiting, pc, sc, changes,
                              extCount, quiet, extPending, disk0, snap0>>
          ELSE /\ ProcessChange(Main)
               /\ sess'[Main].todo[f] = "none"

\* the worker runs the copy it took
PoolCopy ==
  /\ pc[Main] = "sync"
  /\ RunCopy(Main)
  /\ \E task \in sess[Main].running_tasks \cap sess[Main].tasks :
       task \notin sess'[Main].tasks

\* the worker runs the delete it took
PoolDelete ==
  /\ pc[Main] = "sync"
  /\ RunDelete(Main)
  /\ \E task \in sess[Main].running_tasks \cap sess[Main].tasks :
       task \notin sess'[Main].tasks

\* lines 110-123: every future of `futures` has completed, the `with` block
\* is left and the executor shut down
ShutdownPool ==
  /\ pc[Main] = "sync"
  /\ ~sess[Main].shut
  /\ \A f \in Files : sess[Main].fut[f] # "pending"
  /\ sess' = [sess EXCEPT ![Main].shut = TRUE]
  /\ UNCHANGED <<directories, policy, ioFaults, disk, rootExists, meta, running,
                 is_syncing, waiting, pc, sc, changes, extCount, quiet, extPending,
                 disk0, snap0>>

\* shutdown(wait=True) returns when the queue is empty and the workers idle
ReturnPool ==
  /\ sess[Main].shut
  /\ BusyWorkers = 0
  /\ ReturnSync

NextPool ==
  \/ CallPool
  \/ StartChange
  \/ StartTask
  \/ PoolChange
  \/ PoolCopy
  \/ PoolDelete
  \/ ShutdownPool
  \/ ReturnPool

SpecPool == InitPool /\ [][NextPool]_vars

\* the main thread and the workers of the pool keep running
FairPool == SpecPool /\ WF_vars(NextPool)

\* C28: a sync_files call under the newest policy returns, whatever the size
\* of its pool and its change set; no _process_change item is left to run
\* once the executor has been shut down, so no submit is rejected.
PoolAlwaysReturns ==
  /\ (pc[Main] = "sync") ~> Returned
  /\ [](sess[Main].shut => ChangedFiles(sess[Main].todo) = {})

\* a pool of one worker has returned from a call with two changed paths and
\* four nested tasks
OneWorkerRanNestedTasks ==
  /\ Returned
  /\ sess[Main].max_workers = 1
  /\ Cardinality(ChangedFiles(sess[Main].given)) = 2
  /\ Cardinality(sess[Main].submitted) = 4
  /\ sess[Main].tasks = {}

\* ------------------------------------------------------------------ startup
\* start() on trees that already hold files, two or three replicas, nobody
\* else touching them: the seeding of _initialize_metadata and the first
\* rounds of the watch loops.  The first replica holds any of its files; the
\* others hold nothing or files written later.  No
\* read or write fails, and with three replicas no file is held both by the
\* first replica and by another.
MaxReplicas == 3

StartStates == {NoFile, File(1, 1), File(2, 2)}

InitStart ==
  /\ directories \in {[i \in 1..n |-> i] : n \in 2..MaxReplicas}
  /\ policy = "newest_file_wins"
  /\ ioFaults = FALSE
  /\ disk \in [AllDirs -> [Files -> StartStates]]
  /\ \A f \in Files : disk[1][f] \in {NoFile, File(f, f)}
  /\ \A d \in AllDirs \ {1}, f \in Files : disk[d][f] \in {NoFile, File(2, 2)}
  /\ \A d \in AllDirs \ Range(directories) : disk[d] = EmptyTree
  /\ Len(directories) > 2 =>
       \A d \in AllDirs \ {1}, f \in Files : disk[d][f].ex => ~disk[1][f].ex
  /\ rootExists = [d \in AllDirs |-> TRUE]
  /\ meta = [d \in AllDirs |-> EmptySnapshot]
  /\ running = FALSE
  /\ is_syncing = FALSE
  /\ waiting = {}
  /\ pc = [t \in ThreadIds |-> IF t = Main THEN "start" ELSE "idle"]
  /\ sc = [t \in ThreadIds |-> NoScan]
  /\ changes = [t \in ThreadIds |-> NoChanges]
  /\ sess = [t \in ThreadIds |-> NoSess]
  /\ extCount = 0
  /\ quiet = FALSE
  /\ extPending = {}
  /\ disk0 = disk
  /\ snap0 = EmptySnapshot

NextStart ==
  \/ MainStep
  \/ \E t \in ThreadIds : ThreadStepE2E(t)
  \/ \E d \in AllDirs : LoopStepE2E(d)

SpecStart == InitStart /\ [][NextStart]_vars

First == directories[1]

Others == Loops \ {First}

\* the files the first replica held when start() was called
Seeded == {f \in Files : disk0[First][f].ex}

\* no other replica held a copy of a seeded file
NoConflict0 == \A d \in Others, f \in Seeded : ~disk0[d][f].ex

\* C19: until the seeding session has returned no other replica has a
\* baseline snapshot and no watch loop runs before start() has finished; the
\* seeding session has the first replica as source, all others as targets
\* and exactly the entries of the first replica's snapshot (all its files,
\* when every file can be read) as 'created'; if nothing fails and
\* no other replica held a seeded file, then at the step that starts the
\* loops every replica holds every seeded file with the first replica's
\* content, and no polling scan of another replica reports a seeded file.
SeededBeforeLoopsStart ==
  /\ [](pc[Main] \in {"start", "init_scan", "init_sync"}
          => \A d \in Others : meta[d] = EmptySnapshot)
  /\ [](pc[Main] # "serving" => \A d \in Loops : pc[d] = "idle")
  /\ [](pc[Main] = "init_sync"
          => /\ sess[Main].src = First
             /\ Range(sess[Main].targets) = Others
             /\ \A f \in Files :
                  /\ sess[Main].given[f] =
                       IF meta[First][f].ex THEN "created" ELSE "none"
                  /\ ~ioFaults => (meta[First][f].ex <=> f \in Seeded))
  /\ [][(~running /\ running' /\ NoConflict0 /\ ~ioFaults)
          => \A d \in Loops, f \in Seeded :
               disk'[d][f].ex /\ disk'[d][f].c = disk0[First][f].c]_vars
  /\ [](\A d \in Others :
          (NoConflict0 /\ ~ioFaults /\ pc[d] = "polling" /\ sc[d].phase = "ret")
            => \A f \in Seeded : sc[d].changes[f] = "none")

\* three replicas, two different files in the first one only: the third
\* replica's polling scan has returned and both files are there
SeededReplicaPolledQuiet ==
  /\ Len(directories) = 3
  /\ NoConflict0
  /\ ~ioFaults
  /\ disk0[First][1] = File(1, 1)
  /\ disk0[First][2] = File(2, 2)
  /\ pc[3] = "polling"
  /\ sc[3].phase = "ret"
  /\ sc[3].changes = NoChanges
  /\ \A f \in Files : disk[3][f].ex /\ disk[3][f].c = disk0[First][f].c

\* the file was, when start() was called, in some other replica and not in
\* the first
OnlyElsewhere(f) ==
  /\ ~disk0[First][f].ex
  /\ \E d \in Others : disk0[d][f].ex

\* C29: a file that start() finds in another replica and not in the first is
\* in no change set given to sync_files and in no copy or delete task, is
\* reported by no polling scan, is in its replica's snapshot once the loops
\* run, and every replica holds or lacks it as at the start, as long as
\* nobody touches it.
StartupOnlyFileStaysPut ==
  \A f \in Files :
    OnlyElsewhere(f) =>
      /\ \A d \in AllDirs : /\ disk[d][f].ex = disk0[d][f].ex
                             /\ disk[d][f].c = disk0[d][f].c
      /\ \A t \in ThreadIds :
           /\ sess[t].given[f] = "none"
           /\ \A task \in sess[t].submitted : task.f # f
           /\ changes[t][f] = "none"
      /\ \A d \in Loops :
           (pc[d] = "polling" /\ sc[d].phase = "ret") => sc[d].changes[f] = "none"
      /\ pc[Main] = "serving" =>
           \A d \in Others : Recorded(meta[d][f], disk[d][f])

\* the second replica's own second file is in its snapshot and in no other
\* replica while the first replica's loop runs a session for the first file
OwnFileKeptDuringLaterSession ==
  /\ OnlyElsewhere(2)
  /\ pc[Main] = "serving"
  /\ pc[1] = "sync"
  /\ sess[1].given[1] = "modified"
  /\ sess[1].stats.files_synced > 0
  /\ meta[2][2].ex
  /\ disk[2][2].ex
  /\ ~disk[1][2].ex

\* ------------------------------------------------------------------ empty change sets
\* C20: a sync_files call given an empty change set submits no copy and no
\* delete and leaves the four counters of its manager as they were; a watch
\* loop whose polling scan returned an empty change set goes back to the top
\* of its loop without touching is_syncing, and a loop that is about to set
\* is_syncing holds a change set that is not empty.
EmptyChangeSetDoesNothing ==
  /\ [](\A t \in ThreadIds :
          (sess[t].active /\ sess[t].given = NoChanges)
            => /\ sess[t].submitted = {}
               /\ sess[t].tasks = {}
               /\ sess[t].stats = ZeroStats)
  /\ [][\A d \in Loops :
          (pc[d] = "polling" /\ sc[d].phase = "ret" /\ sc[d].changes = NoChanges
             /\ pc'[d] # "polling")
            => pc'[d] = "loop" /\ is_syncing' = is_syncing /\ sess'[d] = sess[d]]_vars
  /\ [](\A d \in Loops : pc[d] \in {"mark", "handle"} => changes[d] # NoChanges)

\* the first replica was empty when start() seeded the others from it, so
\* that sync_files call had an empty change set; now the second replica's
\* polling scan has returned an empty change set
QuietPollAfterEmptySeeding ==
  /\ extCount = 0
  /\ disk[directories[1]] = EmptyTree
  /\ pc[Main] = "serving"
  /\ pc[2] = "polling"
  /\ sc[2].phase = "ret"
  /\ sc[2].changes = NoChanges
  /\ ~is_syncing

\* ------------------------------------------------------------------ coordination claims
\* the loop d is inside _handle_changes: in sync_files or in the refresh scans
InSession(d) == pc[d] \in {"sync", "refresh"}
\* the loop d is inside sync_files, propagating
Propagating(d) == pc[d] = "sync"
\* the thread t is inside scan_directories on the watcher of replica r
Scanning(t, r) == sc[t].dir = r /\ sc[t].phase \in {"files", "tracked", "delete"}
Stopped == pc[Main] = "stopped"

\* C1: at most one watch loop is inside _handle_changes / sync_files.
OneSessionAtATime ==
  \A d, e \in AllDirs : (InSession(d) /\ InSession(e)) => d = e

\* C2: no watch loop runs its polling scan while a watch loop is propagating
\* files inside _handle_changes.
NoPollingScanDuringSession ==
  \A d, e \in AllDirs : ~(pc[d] = "polling" /\ Scanning(d, d) /\ Propagating(e))

\* C3: the refresh scan of replica r inside _handle_changes never overlaps a
\* polling scan of r by r's own watch loop.
SnapshotScannedByOneThread ==
  \A r, t \in AllDirs :
    ~(t # r /\ pc[t] = "refresh" /\ Scanning(t, r)
            /\ pc[r] = "polling" /\ Scanning(r, r))

\* C4: a polling scan that starts after a session has completed, when the
\* scans have read every external modification, and that no external
\* modification disturbs, returns an empty change set.
QuietPollFindsNothing ==
  \A d \in AllDirs :
    (pc[d] = "polling" /\ sc[d].phase = "ret" /\ sc[d].quiet0)
      => sc[d].changes = NoChanges

\* sync_files has returned inside the _handle_changes of some loop
SyncReturned == \E e \in AllDirs : pc[e] \in {"refresh", "clear", "notify"}

\* C5: once sync_files has returned inside _handle_changes, every watch loop
\* parked on sync_condition.wait() eventually leaves its wait loop.
WaitersEventuallyLeave ==
  \A d \in 1..NWatched : (pc[d] = "wait" /\ SyncReturned) ~> (pc[d] # "wait")

\* C6: after stop() every watch loop eventually terminates, and a loop
\* terminates only from the top of an iteration or from the wait point, never
\* from inside a session.
StopTerminatesLoops ==
  /\ Stopped ~> (\A d \in 1..NWatched : pc[d] = "done")
  /\ [][\A d \in 1..NWatched :
          pc'[d] = "done" => pc[d] \in {"loop", "wait", "done"}]_vars

\* stop() found a session-active flag that nobody would clear and the loops
\* parked on it; all of them have terminated
StoppedLoopsAllDone ==
  /\ Stopped
  /\ is_syncing
  /\ \A d \in 1..NWatched : pc[d] = "done"

\* C22: while a watch loop is between `self.is_syncing = True` (line 98) and
\* the end of the refresh scans of _handle_changes, is_syncing is TRUE.
FlagHeldThroughSession ==
  \A d \in Loops : pc[d] \in {"handle", "sync", "refresh"} => is_syncing

\* every watch loop is parked in sync_condition.wait() and the flag is set
AllParked == is_syncing /\ \A d \in Loops : pc[d] = "wait"

\* C25: whenever is_syncing is TRUE it is FALSE again later, and the loops
\* are never all parked in wait() while the flag is set.
FlagAlwaysClearedAgain ==
  /\ is_syncing ~> ~is_syncing
  /\ [](~AllParked)

\* C26: once the loops run, a change another process made to a replica stops
\* being unread only through the polling scan of that replica's loop, which
\* puts it in the change set the loop hands to sync_files; no other scan
\* takes it into the snapshot.
ExternalChangeReachesSync ==
  [][(pc[Main] = "serving" /\ extCount' = extCount /\ rootExists' = rootExists)
       => \A e \in extPending \ extPending' :
            \E t \in Loops : /\ pc[t] = "polling"
                              /\ sc[t].dir = e[1]
                              /\ sc'[t].changes[e[2]] # "none"]_vars

====
